---- MODULE Spec2Model ----
(***************************************************************************)
(* Inactive-user scan and bulk deletion of the admin users endpoint        *)
(* (router.post('/delete-inactive-users')), with the directory size        *)
(* calculator and the baseline audit it calls, and the single-user         *)
(* operations that can run between its await points.                       *)
(*                                                                         *)
(* Conventions                                                             *)
(*  - A JavaScript value is a record tagged by its typeof: Undef, JNull,   *)
(*    JBool(b), JNum(m), JStr(s).  A number carries its value in           *)
(*    thousandths (m = 1500 is 1.5), which is enough for the fractions the *)
(*    request bodies of the model use; NaN is a separate value.            *)
(*  - Time is in milliseconds, as Date.now() gives it.                     *)
(*  - sha256 is taken to be injective: the digest of a text is the record  *)
(*    Sha256Hex(text), a string of 64 hex characters.                      *)
(***************************************************************************)
EXTENDS Integers, Sequences, FiniteSets, TLC

(***************************************************************************)
(* Bounds of the model                                                     *)
(***************************************************************************)
\* how many times the clock may advance during a behaviour
MaxTicks == 1
\* how many delete-inactive-users requests a behaviour of SpecRescan may hold
MaxRequests == 2
\* how many single-user admin requests may run beside them
MaxEnvOps == 1
\* how many entries a tree of SpecScan may hold
MaxEntries == 3
\* how many single-user admin requests a behaviour of SpecOps may hold
MaxOps == 2

(***************************************************************************)
(* Program constants                                                       *)
(***************************************************************************)
DefaultInactiveDays == 60
MinInactiveDays == 1
MaxInactiveDays == 3650
MinPreviewIdLength == 8
Sha256HexLength == 64
DayMs == 24 * 60 * 60 * 1000
BytesPerMB == 1024 * 1024

(***************************************************************************)
(* JavaScript values                                                       *)
(***************************************************************************)
Undef == [t |-> "undefined"]
JNull == [t |-> "null"]
JBool(b) == [t |-> "boolean", b |-> b]
\* the number m / 1000
JNum(m) == [t |-> "number", nan |-> FALSE, m |-> m]
NaN == [t |-> "number", nan |-> TRUE, m |-> 0]
JStr(s) == [t |-> "string", s |-> s]
JInt(n) == JNum(n * 1000)

\* StringToNumber on the strings the request bodies of the model hold:
\* empty and blank strings are 0, decimal literals their value, the rest NaN
StringToNumber(s) ==
    CASE s = ""    -> JInt(0)
      [] s = "  "  -> JInt(0)
      [] s = "0"   -> JInt(0)
      [] s = "1"   -> JInt(1)
      [] s = "2"   -> JInt(2)
      [] s = "1.5" -> JNum(1500)
      [] s = "-1"  -> JInt(-1)
      [] OTHER     -> NaN

\* Number(v)
ToNumber(v) ==
    CASE v.t = "undefined" -> NaN
      [] v.t = "null"      -> JInt(0)
      [] v.t = "boolean"   -> IF v.b THEN JInt(1) ELSE JInt(0)
      [] v.t = "number"    -> v
      [] v.t = "string"    -> StringToNumber(v.s)

\* String(v).trim() for the values a body field can hold
TrimmedString(v) ==
    CASE v.t = "string" -> IF v.s = "  " THEN "" ELSE v.s
      [] v.t = "number" -> IF v.nan THEN "NaN" ELSE "number"
      [] OTHER          -> v.t

NumberIsFinite(n) == ~n.nan
NumberIsInteger(n) == ~n.nan /\ n.m % 1000 = 0
MathFloor(n) == IF n.nan THEN NaN ELSE JNum((n.m \div 1000) * 1000)
\* v ?? d
Coalesce(v, d) == IF v.t \in {"undefined", "null"} THEN d ELSE v

(***************************************************************************)
(* Handles, directory keys, and the order String.prototype compares by     *)
(***************************************************************************)
\* request.user.profile.handle: the admin who sends the bulk requests
CallerHandle == "admin"
\* DEFAULT_USER.handle
DefaultUserHandle == "default-user"
TemplateHandle == "default-template"
RegularHandles == {"alice", "bob"}
Handles == {CallerHandle, DefaultUserHandle} \cup RegularHandles
DiskOwners == Handles \cup {TemplateHandle}

\* the handles of the model in the order of their UTF-16 code units
SortedHandlePool == <<"admin", "alice", "bob", "carol", "default-template", "default-user">>
HandleRank(h) == CHOOSE i \in 1..Len(SortedHandlePool) : SortedHandlePool[i] = h
StringLess(a, b) == HandleRank(a) < HandleRank(b)

RECURSIVE InsertSorted(_, _)
InsertSorted(h, sorted) ==
    IF sorted = <<>> THEN <<h>>
    ELSE IF StringLess(h, Head(sorted)) THEN <<h>> \o sorted
    ELSE <<Head(sorted)>> \o InsertSorted(h, Tail(sorted))

\* Array.prototype.sort() with the default comparison, on an array of handles
RECURSIVE ArraySort(_)
ArraySort(arr) ==
    IF arr = <<>> THEN <<>> ELSE InsertSorted(Head(arr), ArraySort(Tail(arr)))

\* keysToCheck of checkUserIsUnused, in its order
KeysToCheck ==
    <<"chats", "groupChats", "characters", "worlds", "groups", "files",
      "comfyWorkflows", "userImages", "instruct", "context", "sysprompt",
      "reasoning", "quickreplies", "openAI_Settings", "koboldAI_Settings",
      "novelAI_Settings", "textGen_Settings">>
KeySet == {KeysToCheck[i] : i \in 1..Len(KeysToCheck)}
\* the keys of a UserDirectoryList that the handler reads
DirectoryKeys == {"root"} \cup KeySet

\* categoryToDirKey: template category id -> directory key (Undef when absent)
CategoryToDirKey(categoryId) ==
    CASE categoryId = "characters"       -> JStr("characters")
      [] categoryId = "worlds"           -> JStr("worlds")
      [] categoryId = "instruct"         -> JStr("instruct")
      [] categoryId = "context"          -> JStr("context")
      [] categoryId = "sysprompt"        -> JStr("sysprompt")
      [] categoryId = "reasoning"        -> JStr("reasoning")
      [] categoryId = "quickreplies"     -> JStr("quickreplies")
      [] categoryId = "openai_settings"  -> JStr("openAI_Settings")
      [] categoryId = "kobold_settings"  -> JStr("koboldAI_Settings")
      [] categoryId = "novel_settings"   -> JStr("novelAI_Settings")
      [] categoryId = "textgen_settings" -> JStr("textGen_Settings")
      [] OTHER                           -> Undef

IgnoredEntryNames == {".DS_Store", "Thumbs.db", "desktop.ini"}

(***************************************************************************)
(* Criteria of a scan                                                      *)
(***************************************************************************)
\* lines 583-608: the criteria of a request body, or the 400 it is refused with
ParseCriteria(body) ==
    LET inactiveDaysRaw == Coalesce(body.inactiveDays, JInt(DefaultInactiveDays))
        inactiveDays == MathFloor(ToNumber(inactiveDaysRaw))
        hasCap == /\ body.maxStorageMB.t \notin {"null", "undefined"}
                  /\ TrimmedString(body.maxStorageMB) # ""
        parsed == ToNumber(body.maxStorageMB)
    IN  IF \/ ~NumberIsFinite(inactiveDays)
           \/ inactiveDays.m < MinInactiveDays * 1000
           \/ inactiveDays.m > MaxInactiveDays * 1000
        THEN [ok |-> FALSE, error |-> "inactiveDays"]
        ELSE IF hasCap /\ (~NumberIsFinite(parsed) \/ parsed.m < 0)
        THEN [ok |-> FALSE, error |-> "maxStorageMB"]
        ELSE [ok |-> TRUE,
              criteria |->
                [inactiveDays |-> inactiveDays.m \div 1000,
                 requireUnused |-> (body.requireUnused = JBool(TRUE)),
                 maxStorageMB |-> IF hasCap THEN parsed ELSE JNull,
                 excludeActiveSubscriptions |->
                    (body.excludeActiveSubscriptions # JBool(FALSE))]]

\* Math.floor(maxStorageMB * 1024 * 1024), or null
MaxStorageBytes(criteria) ==
    IF criteria.maxStorageMB = JNull THEN JNull
    ELSE LET m == criteria.maxStorageMB.m
         IN  JInt((m \div 1000) * BytesPerMB + ((m % 1000) * BytesPerMB) \div 1000)

InactiveThreshold(criteria) == criteria.inactiveDays * DayMs

(***************************************************************************)
(* The confirmation token                                                  *)
(***************************************************************************)
\* the decimal text of a non-negative number given in thousandths
NumberText(n) ==
    LET q == n.m \div 1000
        r == n.m % 1000
        d1 == r \div 100
        d2 == (r \div 10) % 10
        d3 == r % 10
    IN  IF r = 0 THEN ToString(q)
        ELSE ToString(q) \o "." \o ToString(d1)
             \o (IF d2 = 0 /\ d3 = 0 THEN "" ELSE ToString(d2))
             \o (IF d3 = 0 THEN "" ELSE ToString(d3))
BoolText(b) == IF b THEN "true" ELSE "false"

RECURSIVE JoinQuoted(_)
JoinQuoted(arr) ==
    IF arr = <<>> THEN ""
    ELSE "\"" \o Head(arr) \o "\""
         \o (IF Tail(arr) = <<>> THEN "" ELSE "," \o JoinQuoted(Tail(arr)))

\* Fault variant of JSONStringify: the storage cap is left out of the text
JSONStringifyWithoutCap(criteria, handles) ==
    "{\"criteria\":{\"inactiveDays\":" \o ToString(criteria.inactiveDays)
    \o ",\"requireUnused\":" \o BoolText(criteria.requireUnused)
    \o ",\"excludeActiveSubscriptions\":" \o BoolText(criteria.excludeActiveSubscriptions)
    \o "},\"handles\":[" \o JoinQuoted(handles) \o "]}"

\* JSON.stringify({ criteria, handles })
JSONStringify(criteria, handles) ==
    "{\"criteria\":{\"inactiveDays\":" \o ToString(criteria.inactiveDays)
    \o ",\"requireUnused\":" \o BoolText(criteria.requireUnused)
    \o ",\"maxStorageMB\":"
    \o (IF criteria.maxStorageMB = JNull THEN "null" ELSE NumberText(criteria.maxStorageMB))
    \o ",\"excludeActiveSubscriptions\":" \o BoolText(criteria.excludeActiveSubscriptions)
    \o "},\"handles\":[" \o JoinQuoted(handles) \o "]}"

\* crypto.createHash('sha256').update(text).digest('hex'): a string value
Sha256Hex(text) == [t |-> "string", s |-> "sha256", of |-> text, len |-> Sha256HexLength]

RECURSIVE MapHandle(_)
MapHandle(cands) ==
    IF cands = <<>> THEN <<>> ELSE <<Head(cands).handle>> \o MapHandle(Tail(cands))

\* Fault variant of PreviewId: the handles are not sorted
PreviewIdUnsorted(criteria, cands) ==
    Sha256Hex(JSONStringify(criteria, MapHandle(cands)))

\* lines 730-733
PreviewId(criteria, cands) ==
    Sha256Hex(JSONStringify(criteria, ArraySort(MapHandle(cands))))

\* a string of the request body that is no digest
PlainString(s) == [t |-> "string", s |-> s, of |-> "", len |-> Len(s)]

(***************************************************************************)
(* The filesystem: each owner (a user, or the template user) has a root    *)
(* directory that exists or not, holding entries under its category        *)
(* directories.  An entry is [key, dir, name, kind, size]: the category     *)
(* directory it lies under, the names of the directories from there down   *)
(* to the one holding it (<<>> when it lies in the category directory      *)
(* itself), its name, what readdir reports it to be and the size stat      *)
(* reports for it.                                                         *)
(***************************************************************************)
\* A tree holds, beside its entries, the filesystem calls that fail on it
\* (faults: an existence check that reports false, a readdir or a stat that
\* throws, each on a path below the root) and the order in which readdir
\* lists names (listing; a name it does not hold is listed last).
NoTree == [exists |-> FALSE, entries |-> {}, faults |-> {}, listing |-> <<>>]
Tree(entries) == [exists |-> TRUE, entries |-> entries, faults |-> {}, listing |-> <<>>]
Fault(call, path) == [call |-> call, path |-> path]
Failing(tree, faults, listing) == [tree EXCEPT !.faults = faults, !.listing = listing]
File(key, name, size) ==
    [key |-> key, dir |-> <<>>, name |-> name, kind |-> "file", size |-> size]
Symlink(key, name, size) ==
    [key |-> key, dir |-> <<>>, name |-> name, kind |-> "symlink", size |-> size]
SubDir(key, name) ==
    [key |-> key, dir |-> <<>>, name |-> name, kind |-> "dir", size |-> 0]
\* the entry e, inside the directories dirs of its category directory
Inside(dirs, e) == [e EXCEPT !.dir = dirs]
\* path.join(current.relPath, entry.name)
RelPath(e) == Append(e.dir, e.name)

\* a tree a filesystem can hold: one entry per path, every entry in a directory
WellFormed(entries) ==
    /\ \A a, b \in entries : (a.key = b.key /\ RelPath(a) = RelPath(b)) => a = b
    /\ \A e \in entries : e.dir # <<>> =>
          \E d \in entries : d.kind = "dir" /\ d.key = e.key /\ RelPath(d) = e.dir

RECURSIVE SumSizes(_)
SumSizes(entries) ==
    IF entries = {} THEN 0
    ELSE LET e == CHOOSE x \in entries : TRUE
         IN  (IF e.kind = "dir" THEN 0 ELSE e.size) + SumSizes(entries \ {e})

\* the path of an entry below the root: category directory, directories, name
FullPath(e) == <<e.key>> \o e.dir \o <<e.name>>
\* readdir lists name a before name b
ListedBefore(tree, a, b) ==
    \E i \in 1..Len(tree.listing) :
        /\ tree.listing[i] = a
        /\ \A j \in 1..i : tree.listing[j] # b

\* lines 115-134: the entry e adds its size to the total when, in each
\* directory on the way to it, the call for that directory found it to exist
\* and read it, and no stat threw at the item leading to e or at an item
\* listed before it: a throw ends the loop of that directory in its catch
Counted(tree, e) ==
    /\ e.kind # "dir"
    /\ \A i \in 0..(Len(FullPath(e)) - 1) :
          LET d == SubSeq(FullPath(e), 1, i)
              x == FullPath(e)[i + 1]
          IN  /\ Fault("exists", d) \notin tree.faults
              /\ Fault("readdir", d) \notin tree.faults
              /\ ~\E f \in tree.faults :
                    /\ f.call = "stat"
                    /\ Len(f.path) = i + 1
                    /\ SubSeq(f.path, 1, i) = d
                    /\ f.path[i + 1] = x \/ ListedBefore(tree, f.path[i + 1], x)

\* Fault variant of CalculateDirectorySize: only regular files are summed
CalculateDirectorySizeOfFiles(tree) ==
    IF ~tree.exists THEN 0
    ELSE SumSizes({e \in tree.entries : e.kind = "file" /\ Counted(tree, e)})

\* calculateDirectorySize(directories.root): stat follows symbolic links, so
\* the size of an entry that is no directory is the size stat reports for it
CalculateDirectorySize(tree) ==
    IF ~tree.exists THEN 0
    ELSE SumSizes({e \in tree.entries : Counted(tree, e)})

\* getUserDirectories(handle)[key]: the path of a category directory
DirPath(owner, key) == [t |-> "string", owner |-> owner, key |-> key]

\* lines 30-46 of the audit: the walk reads a directory when it has been
\* pushed, which takes a name readdir lists and the ignore list does not hold
\* at every level above the entry
Walked(entries, e) ==
    \A i \in 1..Len(e.dir) :
        /\ e.dir[i] \notin IgnoredEntryNames
        /\ \E d \in entries :
              d.kind = "dir" /\ d.key = e.key /\ RelPath(d) = SubSeq(e.dir, 1, i)

\* Fault variant of DirHasExtraContent: the ignore list is not consulted
DirHasExtraContentCountsNoise(fs, userDir, baselineDir) ==
    IF userDir.t # "string" \/ ~fs[userDir.owner].exists THEN FALSE
    ELSE \E e \in fs[userDir.owner].entries :
            /\ e.key = userDir.key
            /\ e.kind # "dir"
            /\ \/ e.kind # "file"
               \/ baselineDir.t # "string"
               \/ ~fs[baselineDir.owner].exists
               \/ ~\E b \in fs[baselineDir.owner].entries :
                      /\ b.key = baselineDir.key
                      /\ RelPath(b) = RelPath(e)
                      /\ b.size = e.size

\* dirHasExtraContent(userDir, baselineDir).hasExtra on `fs`, the trees by owner
\* existsSync reports false for a path that is missing and for one it cannot
\* reach; the outer catch (line 78) turns a readdir that throws into hasExtra,
\* the inner one (line 71) a stat that throws, on either side
DirHasExtraContent(fs, userDir, baselineDir) ==
    IF \/ userDir.t # "string"
       \/ ~fs[userDir.owner].exists
       \/ Fault("exists", <<userDir.key>>) \in fs[userDir.owner].faults
    THEN FALSE
    ELSE \/ Fault("readdir", <<userDir.key>>) \in fs[userDir.owner].faults
         \/ \E e \in fs[userDir.owner].entries :
               /\ e.key = userDir.key
               /\ Walked(fs[userDir.owner].entries, e)
               /\ e.name \notin IgnoredEntryNames
               /\ IF e.kind = "dir"
                  THEN Fault("readdir", FullPath(e)) \in fs[userDir.owner].faults
                  ELSE \/ e.kind # "file"
                       \/ baselineDir.t # "string"
                       \/ ~fs[baselineDir.owner].exists
                       \/ Fault("exists", FullPath(e)) \in fs[baselineDir.owner].faults
                       \/ Fault("stat", FullPath(e)) \in fs[userDir.owner].faults
                       \/ Fault("stat", FullPath(e)) \in fs[baselineDir.owner].faults
                       \/ ~\E b \in fs[baselineDir.owner].entries :
                              /\ b.key = baselineDir.key
                              /\ RelPath(b) = RelPath(e)
                              /\ b.size = e.size

\* A directory list (the resolver's object for the template user, or the
\* baseline made from it) is the set of its keys whose value is a path, the
\* path of key k being DirPath(TemplateHandle, k); its other keys hold null.
\* baselineDirectories?.[key] || null
BaselineDirOf(baselineDirectories, key) ==
    IF baselineDirectories = JNull THEN JNull
    ELSE IF key \in baselineDirectories.paths THEN DirPath(TemplateHandle, key)
    ELSE JNull

\* Fault variant of AuditFrom: the loop does not return at a category with
\* extra content
RECURSIVE AuditFromToTheEnd(_, _, _, _)
AuditFromToTheEnd(fs, userDirectories, baselineDirectories, i) ==
    IF i > Len(KeysToCheck) THEN <<>>
    ELSE LET key == KeysToCheck[i]
             hasExtra == DirHasExtraContent(fs, userDirectories[key],
                                            BaselineDirOf(baselineDirectories, key))
         IN  << <<key, hasExtra>> >>
             \o AuditFromToTheEnd(fs, userDirectories, baselineDirectories, i + 1)

\* the loop of checkUserIsUnused from the i-th key on: the details it has
\* filled in when it returns, as <<key, hasExtra>> pairs in checklist order
RECURSIVE AuditFrom(_, _, _, _)
AuditFrom(fs, userDirectories, baselineDirectories, i) ==
    IF i > Len(KeysToCheck) THEN <<>>
    ELSE LET key == KeysToCheck[i]
             hasExtra == DirHasExtraContent(fs, userDirectories[key],
                                            BaselineDirOf(baselineDirectories, key))
         IN  IF hasExtra THEN << <<key, TRUE>> >>
             ELSE << <<key, FALSE>> >>
                  \o AuditFrom(fs, userDirectories, baselineDirectories, i + 1)

\* checkUserIsUnused(userDirectories, baselineDirectories)
CheckUserIsUnused(fs, userDirectories, baselineDirectories) ==
    LET details == AuditFrom(fs, userDirectories, baselineDirectories, 1)
    IN  [isUnused |-> (details = <<>> \/ ~details[Len(details)][2]),
         details |-> details]

\* getUserDirectories(handle) for a user
UserDirectories(handle) == [k \in DirectoryKeys |-> DirPath(handle, k)]

\* lines 613-646: the baseline of a scan, from the template info and the
\* directory list the resolver holds for the template user
RECURSIVE ActiveDirKeys(_)
ActiveDirKeys(categories) ==
    IF categories = <<>> THEN {}
    ELSE LET k == CategoryToDirKey(Head(categories))
         IN  (IF k.t = "string" THEN {k.s} ELSE {}) \cup ActiveDirKeys(Tail(categories))

BaselineDirectories(info, cached) ==
    IF info.exists /\ Len(info.categories) > 0
    THEN [paths |-> {k \in cached : k \in ActiveDirKeys(info.categories)}]
    ELSE JNull

(***************************************************************************)
(* State                                                                   *)
(***************************************************************************)
VARIABLES
    \* the world the handlers share
    store,          \* account store: handle -> user record, or NoUser
    avatars,        \* handles that have an avatar record
    disk,           \* owner -> tree of its root directory
    stats,          \* systemMonitor: handle -> load stats, or NoStats
    clock,          \* Date.now()
    templateInfo,   \* getDefaultTemplateInfo()
    dirCache,       \* the object getUserDirectories('default-template') returns:
                    \* the keys it holds a path for (the path is DirPath)
    \* one delete-inactive-users request
    pc,             \* where the handler is
    criteria, now, baselineDirectories,
    users,          \* what storage.values returned
    todo,           \* the handles of users the scan loop has still to visit
    cur,            \* the candidate the scan loop is building
    unusedCheck,    \* what checkUserIsUnused last returned in the scan loop, or null
    candidates, totalCandidateSize, previewId,
    req,            \* dryRun, previewId and confirmCount of the request body
    idx,            \* position of the execution loop in candidates
    emailNotified, emailError, results, totalDeletedSize,
    response,
    \* a single-user admin request running beside it, or NoOp
    op,
    \* a second handler of either kind, suspended at an await while the
    \* handlers above run: the locals of its bulk request and its single-user
    \* request
    parked,
    \* bookkeeping
    nRequests, nTicks, nEnvOps,
    actor,          \* who took the last step
    effects,        \* what the current request has changed: <<what, handle>> with
                    \* what one of "record", "avatar", "directory", "statistics"
    scans           \* the scans completed so far, oldest first

world == <<store, avatars, disk, stats, dirCache>>
scanVars == <<criteria, now, baselineDirectories, users, todo, cur, unusedCheck,
              candidates, totalCandidateSize>>
execVars == <<previewId, req, idx, emailNotified, emailError, results,
              totalDeletedSize, effects, scans>>
vars == <<store, avatars, disk, stats, clock, templateInfo, dirCache, pc,
          criteria, now, baselineDirectories, users, todo, cur, unusedCheck,
          candidates, totalCandidateSize, previewId, req, idx, emailNotified, emailError,
          results, totalDeletedSize, response, op, parked, nRequests, nTicks,
          nEnvOps, actor, effects, scans>>

NoUser == JNull
NoStats == JNull
NoOp == JNull
NoResponse == [status |-> 0, kind |-> "none", error |-> ""]
NoReq == [dryRun |-> FALSE, previewId |-> Undef, confirmCount |-> Undef]
NoCandidate == JNull
\* the locals of a delete-inactive-users handler that is not running
IdleLocals ==
    [pc |-> "idle", criteria |-> JNull, now |-> 0, baselineDirectories |-> JNull,
     users |-> [h \in Handles |-> NoUser], todo |-> {}, cur |-> NoCandidate,
     unusedCheck |-> JNull, candidates |-> <<>>, totalCandidateSize |-> 0,
     previewId |-> JNull, req |-> NoReq, idx |-> 0, emailNotified |-> FALSE,
     emailError |-> JNull, results |-> <<>>, totalDeletedSize |-> 0,
     response |-> NoResponse]
NoParked == [request |-> IdleLocals, op |-> NoOp]

(***************************************************************************)
(* Initial populations                                                     *)
(***************************************************************************)
Now0 == 10 * DayMs

User(handle, admin, created, expiresAt, email) ==
    [handle |-> handle, admin |-> admin, enabled |-> TRUE, created |-> created,
     expiresAt |-> expiresAt, email |-> email]
Stats(lastActivity, lastHeartbeat) ==
    [lastActivity |-> lastActivity, lastHeartbeat |-> lastHeartbeat]

\* what a regular user can look like when the model starts
Profiles == {"dormant", "mailer", "subscriber", "coadmin"}
ProfileRank(p) ==
    CASE p = "dormant" -> 1 [] p = "mailer" -> 2 [] p = "subscriber" -> 3
      [] p = "coadmin" -> 4
ProfileUser(p, h) ==
    CASE p = "dormant"    -> User(h, FALSE, Now0 - 5 * DayMs, 0, Undef)
      [] p = "mailer"     -> User(h, FALSE, Now0 - 5 * DayMs, 0, JStr("user@example.org"))
      [] p = "subscriber" -> User(h, FALSE, Now0 - 5 * DayMs, Now0 + DayMs \div 2, JStr("  "))
      [] p = "coadmin"    -> User(h, TRUE, Now0 - 5 * DayMs, 0, Undef)
ProfileStats(p) ==
    CASE p = "mailer" -> Stats(Now0 - 2 * DayMs, 0)
      [] p = "subscriber" -> Stats(Now0 - 4 * DayMs, Now0 - 3 * DayMs)
      [] OTHER -> NoStats
ProfileTree(p) ==
    CASE p = "dormant"    -> NoTree
      [] p = "mailer"     -> Tree({File("chats", "chat1.json", BytesPerMB)})
      [] p = "subscriber" -> Tree({File("instruct", "preset.json", 7),
                                   File("chats", ".DS_Store", 0)})
      [] p = "coadmin"    -> Tree({})

TemplateInfos == {[exists |-> FALSE, categories |-> <<>>],
                  [exists |-> TRUE, categories |-> <<"instruct", "themes">>]}
TemplateTree == Tree({File("instruct", "preset.json", 7),
                      SubDir("instruct", "sub"),
                      Inside(<<"sub">>, File("instruct", "deep.json", 3)),
                      File("chats", "chat1.json", BytesPerMB)})

\* no request has arrived yet: every user has an avatar, the resolver's list
\* for the template user is whole, and no handler is running
Quiet ==
    /\ avatars = Handles
    /\ clock = Now0
    /\ dirCache = DirectoryKeys
    /\ pc = "idle"
    /\ criteria = JNull /\ now = 0 /\ baselineDirectories = JNull
    /\ users = [h \in Handles |-> NoUser] /\ todo = {} /\ cur = NoCandidate
    /\ unusedCheck = JNull
    /\ candidates = <<>> /\ totalCandidateSize = 0 /\ previewId = JNull
    /\ req = NoReq /\ idx = 0
    /\ emailNotified = FALSE /\ emailError = JNull
    /\ results = <<>> /\ totalDeletedSize = 0
    /\ response = NoResponse
    /\ op = NoOp
    /\ parked = NoParked
    /\ nRequests = 0 /\ nTicks = 0 /\ nEnvOps = 0
    /\ actor = "init" /\ effects = {} /\ scans = <<>>

Init ==
    /\ \E prof \in [RegularHandles -> Profiles] :
        /\ ProfileRank(prof["alice"]) <= ProfileRank(prof["bob"])
        /\ store = [h \in Handles |->
                      IF h = CallerHandle THEN User(h, TRUE, DayMs, 0, Undef)
                      ELSE IF h = DefaultUserHandle THEN User(h, FALSE, DayMs, 0, Undef)
                      ELSE ProfileUser(prof[h], h)]
        /\ stats = [h \in Handles |->
                      IF h = CallerHandle THEN Stats(Now0, Now0)
                      ELSE IF h = DefaultUserHandle THEN NoStats
                      ELSE ProfileStats(prof[h])]
        /\ disk = [o \in DiskOwners |->
                      IF o = TemplateHandle THEN TemplateTree
                      ELSE IF o \in RegularHandles THEN ProfileTree(prof[o])
                      ELSE Tree({})]
    /\ templateInfo \in TemplateInfos
    /\ Quiet

(***************************************************************************)
(* delete-inactive-users: the scan                                         *)
(***************************************************************************)
\* typeof user.email === 'string' && user.email.trim().length > 0
HasBoundEmail(user) == user.email.t = "string" /\ TrimmedString(user.email) # ""

\* lines 671 and 799: Boolean(expiresAt && expiresAt > t)
SubscriptionActiveAt(user, t) == user.expiresAt # 0 /\ user.expiresAt > t

\* lines 676-690: the last-activity time the scan uses for a user
LastActivityTime(user, userStats) ==
    IF userStats # NoStats /\ userStats.lastActivity # 0
    THEN IF userStats.lastHeartbeat # 0 THEN userStats.lastHeartbeat
         ELSE userStats.lastActivity
    ELSE user.created

\* Fault variant of ScanProtected: the admin flag is not looked at
ScanProtectedIgnoresAdmin(user, callerHandle) ==
    \/ user.handle = callerHandle
    \/ user.handle = DefaultUserHandle

\* lines 657-669: the protections of the scan loop
ScanProtected(user, callerHandle) ==
    \/ user.handle = callerHandle
    \/ user.handle = DefaultUserHandle
    \/ user.admin

\* Fault variant of ScanFilter: a user idle for exactly the threshold is kept
ScanFilterAtThreshold(user, callerHandle, crit, nowMs, userStats) ==
    LET hasActiveSubscription == SubscriptionActiveAt(user, nowMs)
        lastActivityTime == LastActivityTime(user, userStats)
        timeSinceLastActivity == nowMs - lastActivityTime
    IN  [skip |-> \/ ScanProtected(user, callerHandle)
                  \/ (crit.excludeActiveSubscriptions /\ hasActiveSubscription)
                  \/ ~(timeSinceLastActivity >= InactiveThreshold(crit)),
         draft |-> [handle |-> user.handle,
                    lastActivity |-> lastActivityTime,
                    daysSinceLastActivity |-> timeSinceLastActivity \div DayMs,
                    storageSize |-> 0,
                    hasEmail |-> HasBoundEmail(user),
                    expiresAt |-> user.expiresAt,
                    hasActiveSubscription |-> hasActiveSubscription,
                    isUnused |-> JNull]]

\* lines 655-698: the checks of one iteration that need no I/O.  skip is
\* whether the loop continues with the next user; draft is the candidate so far
ScanFilter(user, callerHandle, crit, nowMs, userStats) ==
    LET hasActiveSubscription == SubscriptionActiveAt(user, nowMs)
        lastActivityTime == LastActivityTime(user, userStats)
        timeSinceLastActivity == nowMs - lastActivityTime
    IN  [skip |-> \/ ScanProtected(user, callerHandle)
                  \/ (crit.excludeActiveSubscriptions /\ hasActiveSubscription)
                  \/ ~(timeSinceLastActivity > InactiveThreshold(crit)),
         draft |-> [handle |-> user.handle,
                    lastActivity |-> lastActivityTime,
                    daysSinceLastActivity |-> timeSinceLastActivity \div DayMs,
                    storageSize |-> 0,
                    hasEmail |-> HasBoundEmail(user),
                    expiresAt |-> user.expiresAt,
                    hasActiveSubscription |-> hasActiveSubscription,
                    isUnused |-> JNull]]

\* Fault variant of OverStorageCap: no size is over the cap
OverStorageCapNever(crit, storageSize) == FALSE

\* line 703: maxStorageBytes !== null && storageSize > maxStorageBytes
OverStorageCap(crit, storageSize) ==
    /\ MaxStorageBytes(crit) # JNull
    /\ storageSize * 1000 > MaxStorageBytes(crit).m

\* Fault variant of CachedAfterBaseline: without the spread of line 618 the
\* loop of lines 641-645 nulls the inactive keys of the resolver's own object
CachedAfterBaselineInPlace(info, cached) ==
    IF info.exists /\ Len(info.categories) > 0
    THEN {k \in cached : k \in ActiveDirKeys(info.categories)}
    ELSE cached

\* line 618: the spread copies the resolver's object, which stays as it was
CachedAfterBaseline(info, cached) == cached

\* the request bodies of the model: scan criteria
Body(days, unused, cap, excl) ==
    [inactiveDays |-> days, requireUnused |-> unused, maxStorageMB |-> cap,
     excludeActiveSubscriptions |-> excl]
CriteriaBodies ==
    [inactiveDays : {JInt(1), JNum(2500)}, requireUnused : {Undef, JBool(TRUE)},
     maxStorageMB : {Undef, JInt(1)},
     excludeActiveSubscriptions : {Undef, JBool(FALSE)}]
    \cup {Body(JInt(0), Undef, Undef, Undef), Body(JStr("abc"), Undef, Undef, Undef),
          Body(JInt(1), JStr("true"), JStr("  "), JNull),
          Body(JInt(1), Undef, JInt(-1), Undef), Body(JInt(1), Undef, JInt(0), Undef)}

Rejected(status, error) == [status |-> status, kind |-> "error", error |-> error]
Accepted == [status |-> 200, kind |-> "ok", error |-> ""]

\* the locals of a handler that is not running
NoLocals ==
    /\ criteria' = JNull /\ now' = 0 /\ baselineDirectories' = JNull
    /\ users' = [h \in Handles |-> NoUser] /\ todo' = {} /\ cur' = NoCandidate
    /\ unusedCheck' = JNull
    /\ candidates' = <<>> /\ totalCandidateSize' = 0 /\ previewId' = JNull
    /\ req' = NoReq /\ idx' = 0 /\ emailNotified' = FALSE /\ emailError' = JNull
    /\ results' = <<>> /\ totalDeletedSize' = 0 /\ effects' = {}

\* lines 579-646: a request arrives; its criteria are parsed and the baseline built
StartRequest(body) ==
    /\ pc = "idle"
    /\ nRequests' = nRequests + 1
    /\ actor' = "bulk" /\ UNCHANGED parked
    /\ LET parsed == ParseCriteria(body)
       IN  IF ~parsed.ok
           THEN /\ response' = Rejected(400, parsed.error)
                /\ pc' = "responded"
                /\ criteria' = JNull /\ now' = 0 /\ baselineDirectories' = JNull
                /\ dirCache' = dirCache
           ELSE /\ response' = NoResponse
                /\ pc' = "values"
                /\ criteria' = parsed.criteria
                /\ now' = clock
                /\ baselineDirectories' = BaselineDirectories(templateInfo, dirCache)
                /\ dirCache' = CachedAfterBaseline(templateInfo, dirCache)
    /\ UNCHANGED <<users, todo, cur, unusedCheck, candidates, totalCandidateSize,
                   execVars>>
    /\ UNCHANGED <<store, avatars, disk, stats, clock, templateInfo, op, nTicks, nEnvOps>>

\* the handler has returned: its locals are gone
Return ==
    /\ pc = "responded"
    /\ pc' = "idle"
    /\ response' = NoResponse
    /\ NoLocals
    /\ actor' = "bulk" /\ UNCHANGED parked
    /\ UNCHANGED <<store, avatars, disk, stats, clock, templateInfo, dirCache, op,
                   nRequests, nTicks, nEnvOps, scans>>

\* line 650: await storage.values(...)
ReadUsers ==
    /\ pc = "values"
    /\ users' = store
    /\ todo' = {h \in Handles : store[h] # NoUser}
    /\ pc' = "scan"
    /\ actor' = "bulk" /\ UNCHANGED parked
    /\ UNCHANGED <<store, avatars, disk, stats, clock, templateInfo, dirCache,
                   criteria, now, baselineDirectories, cur, unusedCheck, candidates,
                   totalCandidateSize, execVars, response, op, nRequests, nTicks,
                   nEnvOps>>

\* lines 715-727: candidates.push(...)
PushCandidate(c) ==
    /\ candidates' = Append(candidates, c)
    /\ totalCandidateSize' = totalCandidateSize + c.storageSize

\* lines 655-698: the next user of the enumeration, up to the size computation
ScanNext(h) ==
    /\ pc = "scan"
    /\ h \in todo
    /\ LET f == ScanFilter(users[h], CallerHandle, criteria, now, stats[h])
       IN  IF f.skip
           THEN /\ todo' = todo \ {h} /\ cur' = NoCandidate /\ pc' = "scan"
           ELSE /\ todo' = todo /\ cur' = f.draft /\ pc' = "size"
    /\ actor' = "bulk" /\ UNCHANGED parked
    /\ UNCHANGED <<store, avatars, disk, stats, clock, templateInfo, dirCache,
                   criteria, now, baselineDirectories, users, unusedCheck,
                   candidates, totalCandidateSize, execVars, response, op,
                   nRequests, nTicks, nEnvOps>>

\* lines 700-713: await calculateDirectorySize, the storage cap
ScanSize ==
    /\ pc = "size"
    /\ LET storageSize == CalculateDirectorySize(disk[cur.handle])
           c == [cur EXCEPT !.storageSize = storageSize]
       IN  IF OverStorageCap(criteria, storageSize)
           THEN /\ todo' = todo \ {cur.handle} /\ cur' = NoCandidate /\ pc' = "scan"
                /\ UNCHANGED <<candidates, totalCandidateSize>>
           ELSE IF criteria.requireUnused
           THEN /\ todo' = todo /\ cur' = c /\ pc' = "audit"
                /\ UNCHANGED <<candidates, totalCandidateSize>>
           ELSE /\ todo' = todo \ {cur.handle} /\ cur' = NoCandidate /\ pc' = "scan"
                /\ PushCandidate(c)
    /\ unusedCheck' = JNull
    /\ actor' = "bulk" /\ UNCHANGED parked
    /\ UNCHANGED <<store, avatars, disk, stats, clock, templateInfo, dirCache,
                   criteria, now, baselineDirectories, users, execVars, response,
                   op, nRequests, nTicks, nEnvOps>>

\* lines 707-713: await checkUserIsUnused
ScanAudit ==
    /\ pc = "audit"
    /\ unusedCheck' = CheckUserIsUnused(disk, UserDirectories(cur.handle),
                                        baselineDirectories)
    /\ IF ~unusedCheck'.isUnused
       THEN UNCHANGED <<candidates, totalCandidateSize>>
       ELSE PushCandidate([cur EXCEPT !.isUnused = JBool(unusedCheck'.isUnused)])
    /\ todo' = todo \ {cur.handle} /\ cur' = NoCandidate /\ pc' = "scan"
    /\ actor' = "bulk" /\ UNCHANGED parked
    /\ UNCHANGED <<store, avatars, disk, stats, clock, templateInfo, dirCache,
                   criteria, now, baselineDirectories, users, execVars, response,
                   op, nRequests, nTicks, nEnvOps>>

(***************************************************************************)
(* delete-inactive-users: confirmation and execution                       *)
(***************************************************************************)
\* Fault variant of ValidateConfirm: the token is not compared (line 761)
ValidateConfirmWithoutToken(requestPreviewId, confirmCountRaw, token, nCandidates) ==
    LET confirmCount == ToNumber(confirmCountRaw)
    IN  IF requestPreviewId.t # "string" \/ requestPreviewId.len < MinPreviewIdLength
        THEN Rejected(400, "missing previewId")
        ELSE IF \/ ~NumberIsFinite(confirmCount)
                \/ ~NumberIsInteger(confirmCount)
                \/ confirmCount.m < 0
        THEN Rejected(400, "missing confirmCount")
        ELSE IF confirmCount.m # nCandidates * 1000
        THEN Rejected(400, "confirmCount mismatch")
        ELSE Accepted

\* Fault variant of ValidateConfirm: the count is not compared (line 765)
ValidateConfirmWithoutCount(requestPreviewId, confirmCountRaw, token, nCandidates) ==
    LET confirmCount == ToNumber(confirmCountRaw)
    IN  IF requestPreviewId.t # "string" \/ requestPreviewId.len < MinPreviewIdLength
        THEN Rejected(400, "missing previewId")
        ELSE IF \/ ~NumberIsFinite(confirmCount)
                \/ ~NumberIsInteger(confirmCount)
                \/ confirmCount.m < 0
        THEN Rejected(400, "missing confirmCount")
        ELSE IF requestPreviewId # token
        THEN Rejected(409, "preview changed")
        ELSE Accepted

\* lines 749-767: the checks of a request that is no dry run
ValidateConfirm(requestPreviewId, confirmCountRaw, token, nCandidates) ==
    LET confirmCount == ToNumber(confirmCountRaw)
    IN  IF requestPreviewId.t # "string" \/ requestPreviewId.len < MinPreviewIdLength
        THEN Rejected(400, "missing previewId")
        ELSE IF \/ ~NumberIsFinite(confirmCount)
                \/ ~NumberIsInteger(confirmCount)
                \/ confirmCount.m < 0
        THEN Rejected(400, "missing confirmCount")
        ELSE IF requestPreviewId # token
        THEN Rejected(409, "preview changed")
        ELSE IF confirmCount.m # nCandidates * 1000
        THEN Rejected(400, "confirmCount mismatch")
        ELSE Accepted

\* the request bodies of the model: confirmation fields
StaleTokens(crit, cands) ==
    {Sha256Hex(JSONStringify(crit, <<>>)), Sha256Hex(JSONStringify(crit, <<"alice">>)),
     PreviewId([crit EXCEPT !.requireUnused = ~@], cands)}
PreviewIdInputs(crit, cands) ==
    {Undef, JNull, JInt(123456), PlainString(""), PlainString("preview"),
     PlainString("deadbeef"), PreviewId(crit, cands)} \cup StaleTokens(crit, cands)
ConfirmCountInputs ==
    {Undef, JNull, JStr(""), JStr("abc"), JNum(1500), JInt(-1), JInt(0), JInt(1),
     JInt(2), JStr("1"), JBool(TRUE)}
ConfirmBody(dryRun, pid, count) ==
    [dryRun |-> dryRun, previewId |-> pid, confirmCount |-> count]
DryRunBody == ConfirmBody(TRUE, Undef, Undef)
ConfirmBodies(crit, cands) ==
    IF crit = JNull THEN {}
    ELSE {DryRunBody,
          ConfirmBody(FALSE, Undef, Undef),
          ConfirmBody(FALSE, PlainString("deadbeef"), Undef),
          ConfirmBody(FALSE, PlainString("deadbeef"), JNull)}
         \cup {ConfirmBody(FALSE, p, JInt(Len(cands))) : p \in PreviewIdInputs(crit, cands)}
         \cup {ConfirmBody(FALSE, PreviewId(crit, cands), c) : c \in ConfirmCountInputs}

PreviewResponse == [status |-> 200, kind |-> "preview", error |-> ""]
ReportResponse == [status |-> 200, kind |-> "report", error |-> ""]

\* what a completed scan saw and answered
ScanRecord ==
    [criteria |-> criteria, users |-> users, disk |-> disk, stats |-> stats,
     now |-> now, order |-> MapHandle(candidates),
     token |-> PreviewId(criteria, candidates)]

\* lines 730-772: the token, the dry-run answer, the confirmation checks.  The
\* body's dryRun, previewId and confirmCount are first used here
FinishScan(body) ==
    /\ pc = "scan"
    /\ todo = {}
    /\ LET token == PreviewId(criteria, candidates)
           verdict == ValidateConfirm(body.previewId, body.confirmCount, token,
                                      Len(candidates))
       IN  /\ previewId' = token
           /\ req' = body
           /\ IF body.dryRun
              THEN response' = PreviewResponse /\ pc' = "responded" /\ idx' = 0
              ELSE IF verdict.status # 200
              THEN response' = verdict /\ pc' = "responded" /\ idx' = 0
              ELSE IF candidates = <<>>
              THEN response' = ReportResponse /\ pc' = "responded" /\ idx' = 0
              ELSE response' = response /\ pc' = "get" /\ idx' = 1
    /\ scans' = Append(scans, ScanRecord)
    /\ actor' = "bulk" /\ UNCHANGED parked
    /\ UNCHANGED <<store, avatars, disk, stats, clock, templateInfo, dirCache,
                   scanVars, emailNotified, emailError, results, totalDeletedSize,
                   effects, op, nRequests, nTicks, nEnvOps>>

Failure(handle, error) ==
    [handle |-> handle, success |-> FALSE, error |-> error, deletedSize |-> 0,
     emailNotified |-> Undef, emailError |-> Undef]
\* lines 852-862: the result the catch block records
Caught(handle, message, notified, mailError) ==
    [handle |-> handle, success |-> FALSE, error |-> message, deletedSize |-> 0,
     emailNotified |-> JBool(notified), emailError |-> mailError]
\* lines 840-849
Success(candidate, notified, mailError) ==
    [handle |-> candidate.handle, success |-> TRUE, error |-> "",
     deletedSize |-> candidate.storageSize,
     emailNotified |-> JBool(notified), emailError |-> mailError]

\* lines 869-872: the two lists of the report and their lengths
DeletedUsers(rs) == SelectSeq(rs, LAMBDA r : r.success)
FailedUsers(rs) == SelectSeq(rs, LAMBDA r : ~r.success)
TotalDeleted(rs) == Len(DeletedUsers(rs))
TotalFailed(rs) == Len(FailedUsers(rs))

\* Fault variant of NextCandidate: a failed candidate ends the loop
NextCandidateStopsAtFailure(result) ==
    /\ results' = Append(results, result)
    /\ totalDeletedSize' = totalDeletedSize + result.deletedSize
    /\ emailNotified' = FALSE
    /\ emailError' = JNull
    /\ IF idx = Len(candidates) \/ ~result.success
       THEN pc' = "responded" /\ idx' = idx /\ response' = ReportResponse
       ELSE pc' = "get" /\ idx' = idx + 1 /\ response' = response

\* a result is recorded; the loop goes on to the next candidate's getItem, or
\* the report is sent (lines 865-876)
NextCandidate(result) ==
    /\ results' = Append(results, result)
    /\ totalDeletedSize' = totalDeletedSize + result.deletedSize
    /\ emailNotified' = FALSE
    /\ emailError' = JNull
    /\ IF idx = Len(candidates)
       THEN pc' = "responded" /\ idx' = idx /\ response' = ReportResponse
       ELSE pc' = "get" /\ idx' = idx + 1 /\ response' = response

\* Fault variant of ExecProtected: the live record's admin flag is not looked at
ExecProtectedIgnoresAdmin(candidate, user, callerHandle) ==
    \/ candidate.handle = callerHandle
    \/ candidate.handle = DefaultUserHandle

\* line 789: the protections the execution loop checks again
ExecProtected(candidate, user, callerHandle) ==
    \/ candidate.handle = callerHandle
    \/ candidate.handle = DefaultUserHandle
    \/ user.admin

\* Fault variant of TurnVerdict: a missing record is taken for a protected one
TurnVerdictMissingAsProtected(candidate, user, callerHandle, crit, nowMs) ==
    IF user = NoUser THEN "Protected user cannot be deleted"
    ELSE IF ExecProtected(candidate, user, callerHandle)
    THEN "Protected user cannot be deleted"
    ELSE IF crit.excludeActiveSubscriptions /\ SubscriptionActiveAt(user, nowMs)
    THEN "User has active subscription"
    ELSE ""

\* Fault variant of TurnVerdict: the subscription is judged by what the scan
\* stored in the candidate
TurnVerdictFromCandidate(candidate, user, callerHandle, crit, nowMs) ==
    IF user = NoUser THEN "User not found"
    ELSE IF ExecProtected(candidate, user, callerHandle)
    THEN "Protected user cannot be deleted"
    ELSE IF crit.excludeActiveSubscriptions /\ candidate.hasActiveSubscription
    THEN "User has active subscription"
    ELSE ""

\* lines 778-807: the three checks on the record read at the candidate's turn,
\* in their order; the error of the first that fails, or "" when none does
TurnVerdict(candidate, user, callerHandle, crit, nowMs) ==
    IF user = NoUser THEN "User not found"
    ELSE IF ExecProtected(candidate, user, callerHandle)
    THEN "Protected user cannot be deleted"
    ELSE IF crit.excludeActiveSubscriptions /\ SubscriptionActiveAt(user, nowMs)
    THEN "User has active subscription"
    ELSE ""

\* lines 777-824: await storage.getItem, the checks on the live record, and
\* the decision on the notice; available is isEmailServiceAvailable()
ExecGet(available) ==
    /\ pc = "get"
    /\ LET candidate == candidates[idx]
           user == store[candidate.handle]
           verdict == TurnVerdict(candidate, user, CallerHandle, criteria, clock)
       IN  IF verdict # ""
           THEN /\ NextCandidate(Failure(candidate.handle, verdict))
           ELSE /\ UNCHANGED <<results, totalDeletedSize, idx, response, emailNotified>>
                /\ IF HasBoundEmail(user)
                   THEN IF available
                        THEN pc' = "send" /\ emailError' = JNull
                        ELSE /\ pc' = "removeKey"
                             /\ emailError' = JStr("Email service not available")
                   ELSE pc' = "removeKey" /\ emailError' = JNull
    /\ actor' = "bulk" /\ UNCHANGED parked
    /\ UNCHANGED <<store, avatars, disk, stats, clock, templateInfo, dirCache,
                   scanVars, previewId, req, effects, scans, op, nRequests, nTicks,
                   nEnvOps>>

\* what `await sendInactiveUserDeletionNotice(...)` can come back with
SendOutcomes == {"sent", "not sent", "throws"}

\* lines 812-820, and the catch when the promise rejects
ExecSend(outcome) ==
    /\ pc = "send"
    /\ outcome \in SendOutcomes
    /\ IF outcome = "throws"
       THEN NextCandidate(Caught(candidates[idx].handle, "send failed",
                                 emailNotified, emailError))
       ELSE /\ emailNotified' = (outcome = "sent")
            /\ emailError' = IF outcome = "sent" THEN JNull
                             ELSE JStr("Failed to send notification email")
            /\ pc' = "removeKey"
            /\ UNCHANGED <<results, totalDeletedSize, idx, response>>
    /\ actor' = "bulk" /\ UNCHANGED parked
    /\ UNCHANGED <<store, avatars, disk, stats, clock, templateInfo, dirCache,
                   scanVars, previewId, req, effects, scans, op, nRequests, nTicks,
                   nEnvOps>>

IoOutcomes == {"ok", "throws"}

\* Fault variant of ExecRemoveKey: a failed removal of the record is ignored
\* and the loop body goes on
ExecRemoveKeyIgnoresFailure(outcome) ==
    /\ pc = "removeKey"
    /\ outcome \in IoOutcomes
    /\ LET h == candidates[idx].handle
       IN  /\ IF outcome = "throws"
              THEN UNCHANGED <<store, effects>>
              ELSE /\ store' = [store EXCEPT ![h] = NoUser]
                   /\ effects' = effects \cup {<<"record", h>>}
           /\ pc' = "removeAvatar"
           /\ UNCHANGED <<results, totalDeletedSize, idx, response,
                          emailNotified, emailError>>
    /\ actor' = "bulk" /\ UNCHANGED parked
    /\ UNCHANGED <<avatars, disk, stats, clock, templateInfo, dirCache, scanVars,
                   previewId, req, scans, op, nRequests, nTicks, nEnvOps>>

\* line 829: await storage.removeItem(toKey(handle))
ExecRemoveKey(outcome) ==
    /\ pc = "removeKey"
    /\ outcome \in IoOutcomes
    /\ LET h == candidates[idx].handle
       IN  IF outcome = "throws"
           THEN /\ NextCandidate(Caught(h, "store failure", emailNotified, emailError))
                /\ UNCHANGED <<store, effects>>
           ELSE /\ store' = [store EXCEPT ![h] = NoUser]
                /\ effects' = effects \cup {<<"record", h>>}
                /\ pc' = "removeAvatar"
                /\ UNCHANGED <<results, totalDeletedSize, idx, response,
                               emailNotified, emailError>>
    /\ actor' = "bulk" /\ UNCHANGED parked
    /\ UNCHANGED <<avatars, disk, stats, clock, templateInfo, dirCache, scanVars,
                   previewId, req, scans, op, nRequests, nTicks, nEnvOps>>

\* systemMonitor.resetUserStats(handle)
ResetUserStats(st, h) == [st EXCEPT ![h] = NoStats]

\* lines 830-849: await storage.removeItem(toAvatarKey(handle)), then
\* fs.existsSync(directories.root), which answers false when the check itself
\* fails; without a root the deletion is complete
ExecRemoveAvatar(outcome) ==
    /\ pc = "removeAvatar"
    /\ outcome \in IoOutcomes
    /\ LET h == candidates[idx].handle
       IN  IF outcome = "throws"
           THEN /\ NextCandidate(Caught(h, "store failure", emailNotified, emailError))
                /\ UNCHANGED <<avatars, stats, effects>>
           ELSE /\ avatars' = avatars \ {h}
                /\ IF disk[h].exists /\ Fault("exists", <<>>) \notin disk[h].faults
                   THEN /\ pc' = "rm"
                        /\ effects' = effects \cup {<<"avatar", h>>}
                        /\ UNCHANGED <<results, totalDeletedSize, idx, response,
                                       emailNotified, emailError, stats>>
                   ELSE /\ stats' = ResetUserStats(stats, h)
                        /\ effects' = effects \cup {<<"avatar", h>>, <<"statistics", h>>}
                        /\ NextCandidate(Success(candidates[idx], emailNotified,
                                                 emailError))
    /\ actor' = "bulk" /\ UNCHANGED parked
    /\ UNCHANGED <<store, disk, clock, templateInfo, dirCache, scanVars,
                   previewId, req, scans, op, nRequests, nTicks, nEnvOps>>

\* lines 834-849: await fsPromises.rm(root, { recursive, force })
ExecRm(outcome) ==
    /\ pc = "rm"
    /\ outcome \in IoOutcomes
    /\ LET h == candidates[idx].handle
       IN  IF outcome = "throws"
           THEN /\ NextCandidate(Caught(h, "rm failure", emailNotified, emailError))
                /\ UNCHANGED <<disk, stats, effects>>
           ELSE /\ disk' = [disk EXCEPT ![h] = NoTree]
                /\ effects' = effects \cup {<<"directory", h>>, <<"statistics", h>>}
                /\ stats' = ResetUserStats(stats, h)
                /\ NextCandidate(Success(candidates[idx], emailNotified, emailError))
    /\ actor' = "bulk" /\ UNCHANGED parked
    /\ UNCHANGED <<store, avatars, clock, templateInfo, dirCache, scanVars,
                   previewId, req, scans, op, nRequests, nTicks, nEnvOps>>

(***************************************************************************)
(* Time passes while a handler awaits                                      *)
(***************************************************************************)
\* where the handler is suspended in an await, or not running
AwaitPoints == {"idle", "values", "size", "audit", "get", "send", "removeKey",
                "removeAvatar", "rm"}
\* the handler reads the clock when a request starts (line 611) and at each
\* candidate's turn (line 799): time that passes elsewhere is seen there
ClockReadPoints == {"idle", "get"}

Tick ==
    /\ pc \in ClockReadPoints
    /\ nTicks < MaxTicks
    /\ clock' = clock + DayMs
    /\ nTicks' = nTicks + 1
    /\ actor' = "clock" /\ UNCHANGED parked
    /\ UNCHANGED <<store, avatars, disk, stats, templateInfo, dirCache, pc,
                   scanVars, execVars, response, op, nRequests, nEnvOps>>

(***************************************************************************)
(* Single-user admin requests (disable, enable, promote, demote, delete)   *)
(* sent by the same admin while a bulk request is suspended.  op is the    *)
(* request in flight: its kind, the normalized handle, where it is         *)
(* suspended, and the record it read.                                      *)
(***************************************************************************)
FlagKinds == {"disable", "enable", "promote", "demote"}
\* the handles the single-user requests of the model name
OpHandles == RegularHandles

\* the spellings of a handle that requests of the model send beside the
\* handles themselves
Spellings == {"Admin", "Default User", "Bob"}

\* normalizeHandle of users.js: the normalized identifier of a spelling, a
\* normalized handle being its own
NormalizeHandle(raw) ==
    CASE raw = "Admin"        -> "admin"
      [] raw = "Default User" -> "default-user"
      [] raw = "Bob"          -> "bob"
      [] OTHER                -> raw

\* lines 244, 345: disable and demote refuse the caller's own handle
FlagOpRefused(kind, normalizedHandle, callerHandle) ==
    kind \in {"disable", "demote"} /\ normalizedHandle = callerHandle

\* lines 257, 289, 321, 358: the flag a request sets on the record it read
ApplyFlag(kind, user) ==
    CASE kind = "disable" -> [user EXCEPT !.enabled = FALSE]
      [] kind = "enable"  -> [user EXCEPT !.enabled = TRUE]
      [] kind = "promote" -> [user EXCEPT !.admin = TRUE]
      [] kind = "demote"  -> [user EXCEPT !.admin = FALSE]

OtherVars == <<clock, templateInfo, dirCache, pc, scanVars, execVars, response,
               nRequests, nTicks>>

\* lines 229-250 (and 266-282, 298-314, 330-351): up to await storage.getItem
\* requireAdminMiddleware: the caller is an enabled admin when the request begins
FlagOpStart(caller, kind, raw) ==
    /\ op = NoOp
    /\ pc \in AwaitPoints
    /\ store[caller] # NoUser /\ store[caller].admin /\ store[caller].enabled
    /\ nEnvOps' = nEnvOps + 1
    /\ op' = IF FlagOpRefused(kind, NormalizeHandle(raw), caller) THEN NoOp
             ELSE [kind |-> kind, handle |-> NormalizeHandle(raw), at |-> "get",
                   user |-> NoUser, caller |-> caller]
    /\ actor' = "admin" /\ UNCHANGED parked
    /\ UNCHANGED <<store, avatars, disk, stats, OtherVars>>

\* lines 250-258: the record is read and changed; await storage.setItem
FlagOpGet ==
    /\ op # NoOp
    /\ op.kind \in FlagKinds
    /\ op.at = "get"
    /\ pc \in AwaitPoints
    /\ op' = IF store[op.handle] = NoUser THEN NoOp
             ELSE [op EXCEPT !.at = "set", !.user = ApplyFlag(op.kind, store[op.handle])]
    /\ actor' = "admin" /\ UNCHANGED parked
    /\ UNCHANGED <<store, avatars, disk, stats, nEnvOps, OtherVars>>

\* lines 258-259: storage.setItem writes the record back
FlagOpSet ==
    /\ op # NoOp
    /\ op.kind \in FlagKinds
    /\ op.at = "set"
    /\ pc \in AwaitPoints
    /\ store' = [store EXCEPT ![op.handle] = op.user]
    /\ op' = NoOp
    /\ actor' = "admin" /\ UNCHANGED parked
    /\ UNCHANGED <<avatars, disk, stats, nEnvOps, OtherVars>>

\* lines 424-432: delete refuses the caller's and the default user's handle as
\* the body spells it
DeleteRefused(raw, callerHandle) ==
    raw = callerHandle \/ raw = DefaultUserHandle

\* lines 417-442: up to await storage.removeItem(toKey(handle))
DeleteStart(caller, raw, purge) ==
    /\ op = NoOp
    /\ pc \in AwaitPoints
    /\ store[caller] # NoUser /\ store[caller].admin /\ store[caller].enabled
    /\ nEnvOps' = nEnvOps + 1
    /\ op' = IF DeleteRefused(raw, caller) THEN NoOp
             ELSE [kind |-> "delete", handle |-> NormalizeHandle(raw),
                   at |-> "removeKey", user |-> NoUser, purge |-> purge,
                   caller |-> caller]
    /\ actor' = "admin" /\ UNCHANGED parked
    /\ UNCHANGED <<store, avatars, disk, stats, OtherVars>>

\* line 442
DeleteRemoveKey ==
    /\ op # NoOp
    /\ op.kind = "delete"
    /\ op.at = "removeKey"
    /\ pc \in AwaitPoints
    /\ store' = [store EXCEPT ![op.handle] = NoUser]
    /\ op' = [op EXCEPT !.at = "removeAvatar"]
    /\ actor' = "admin" /\ UNCHANGED parked
    /\ UNCHANGED <<avatars, disk, stats, nEnvOps, OtherVars>>

\* lines 443-449: the avatar record goes, the statistics are reset, and a
\* purge goes on to remove the directories
DeleteRemoveAvatar ==
    /\ op # NoOp
    /\ op.kind = "delete"
    /\ op.at = "removeAvatar"
    /\ pc \in AwaitPoints
    /\ avatars' = avatars \ {op.handle}
    /\ stats' = ResetUserStats(stats, op.handle)
    /\ op' = IF op.purge THEN [op EXCEPT !.at = "rm"] ELSE NoOp
    /\ actor' = "admin" /\ UNCHANGED parked
    /\ UNCHANGED <<store, disk, nEnvOps, OtherVars>>

\* line 449: await fsPromises.rm(directories.root, { recursive, force })
DeleteRm ==
    /\ op # NoOp
    /\ op.kind = "delete"
    /\ op.at = "rm"
    /\ pc \in AwaitPoints
    /\ disk' = [disk EXCEPT ![op.handle] = NoTree]
    /\ op' = NoOp
    /\ actor' = "admin" /\ UNCHANGED parked
    /\ UNCHANGED <<store, avatars, stats, nEnvOps, OtherVars>>

\* a subscription is granted or renewed: the record gets an expiry half a day
\* ahead of the clock (the subscription routes are outside the sources read)
GrantSubscription(h) ==
    /\ op = NoOp
    /\ pc \in AwaitPoints
    /\ nEnvOps < MaxEnvOps
    /\ store[h] # NoUser
    /\ nEnvOps' = nEnvOps + 1
    /\ store' = [store EXCEPT ![h].expiresAt = clock + DayMs \div 2]
    /\ actor' = "admin" /\ UNCHANGED parked
    /\ UNCHANGED <<avatars, disk, stats, op, OtherVars>>

SingleUserOps ==
    \/ \E kind \in FlagKinds, raw \in OpHandles :
          nEnvOps < MaxEnvOps /\ FlagOpStart(CallerHandle, kind, raw)
    \/ FlagOpGet
    \/ FlagOpSet
    \/ \E raw \in OpHandles, purge \in BOOLEAN :
          nEnvOps < MaxEnvOps /\ DeleteStart(CallerHandle, raw, purge)
    \/ DeleteRemoveKey
    \/ DeleteRemoveAvatar
    \/ DeleteRm

(***************************************************************************)
(* Specifications                                                          *)
(***************************************************************************)
Scan ==
    \/ ReadUsers
    \/ \E h \in Handles : ScanNext(h)
    \/ ScanSize
    \/ ScanAudit

Execute ==
    \/ \E available \in BOOLEAN : ExecGet(available)
    \/ \E outcome \in SendOutcomes : ExecSend(outcome)
    \/ \E outcome \in IoOutcomes : ExecRemoveKey(outcome)
    \/ \E outcome \in IoOutcomes : ExecRemoveAvatar(outcome)
    \/ \E outcome \in IoOutcomes : ExecRm(outcome)

\* one request, from any population and with any body of the model
Next ==
    \/ \E body \in CriteriaBodies : nRequests = 0 /\ StartRequest(body)
    \/ Scan
    \/ \E body \in ConfirmBodies(criteria, candidates) : FinishScan(body)
    \/ Execute
    \/ Return
    \/ Tick

Spec == Init /\ [][Next]_vars

\* one request of two candidates, with single-user requests beside it
RaceBodies ==
    {Body(JInt(1), Undef, Undef, JBool(FALSE)),
     Body(JInt(1), JBool(TRUE), Undef, JBool(FALSE))}
RaceConfirmBodies(crit, cands) ==
    IF crit = JNull THEN {}
    ELSE {ConfirmBody(FALSE, PreviewId(crit, cands), JInt(Len(cands)))}
InitRace ==
    /\ Init
    /\ store["alice"] = ProfileUser("mailer", "alice")
    /\ store["bob"] = ProfileUser("subscriber", "bob")
    /\ templateInfo.exists

NextRace ==
    \/ \E body \in RaceBodies : nRequests = 0 /\ StartRequest(body)
    \/ Scan
    \/ \E body \in RaceConfirmBodies(criteria, candidates) : FinishScan(body)
    \/ Execute
    \/ Return
    \/ SingleUserOps

SpecRace == InitRace /\ [][NextRace]_vars

\* one confirmed request that excludes active subscriptions, while
\* subscriptions are granted and time passes
RenewBodies ==
    {Body(JInt(1), Undef, Undef, Undef),
     Body(JInt(1), JBool(TRUE), Undef, Undef)}
NextRenew ==
    \/ \E body \in RenewBodies : nRequests = 0 /\ StartRequest(body)
    \/ Scan
    \/ \E body \in RaceConfirmBodies(criteria, candidates) : FinishScan(body)
    \/ Execute
    \/ Return
    \/ \E h \in OpHandles : GrantSubscription(h)
    \/ Tick

SpecRenew == InitRace /\ [][NextRenew]_vars

\* scans only, one after the other, with time passing between them
RescanBodies ==
    {Body(JInt(2), Undef, Undef, Undef),
     Body(JInt(3), Undef, Undef, Undef),
     Body(JInt(2), JBool(TRUE), Undef, Undef),
     Body(JInt(2), Undef, JNum(1500), Undef),
     Body(JInt(2), Undef, Undef, JBool(FALSE))}
InitRescan ==
    /\ Init
    /\ store["alice"] = ProfileUser("dormant", "alice")
    /\ store["bob"] = ProfileUser("mailer", "bob")
    /\ templateInfo.exists

NextRescan ==
    \/ \E body \in RescanBodies : nRequests < MaxRequests /\ StartRequest(body)
    \/ Scan
    \/ FinishScan(DryRunBody)
    \/ Return
    \/ Tick

SpecRescan == InitRescan /\ [][NextRescan]_vars

\* one dry run over a population made to exercise the scan: alice's tree is
\* any well-formed tree of up to MaxEntries entries of a pool, or bob's
\* activity signals are any combination of present and absent ones
AuditEntryPool ==
    {File("instruct", "preset.json", 7),
     File("instruct", "preset.json", 9),
     Symlink("instruct", "link", 0),
     SubDir("instruct", "sub"),
     Inside(<<"sub">>, File("instruct", "deep.json", 3)),
     Inside(<<"sub">>, File("instruct", "deep.json", 4)),
     Inside(<<"sub">>, Symlink("instruct", "link", 0)),
     File("chats", "chat1.json", BytesPerMB),
     File("chats", ".DS_Store", 0),
     Symlink("chats", "Thumbs.db", 0),
     SubDir("chats", "desktop.ini"),
     Inside(<<"desktop.ini">>, File("chats", "secret.json", 5)),
     File("textGen_Settings", "t.json", 1)}
AuditTrees ==
    {NoTree} \cup
    {Tree(es) : es \in {x \in SUBSET AuditEntryPool :
                           Cardinality(x) <= MaxEntries /\ WellFormed(x)}}
ActivitySignals ==
    {NoStats} \cup
    {Stats(la, hb) : la \in {0, Now0 - 4 * DayMs}, hb \in {0, Now0 - DayMs}}
ScanBodies ==
    {Body(JInt(1), JBool(TRUE), Undef, Undef),
     Body(JInt(3), JBool(TRUE), Undef, Undef),
     Body(JInt(3), Undef, Undef, Undef)}
InitScan ==
    /\ \E tree \in AuditTrees, signals \in ActivitySignals :
        /\ tree = NoTree \/ signals = NoStats
        /\ store = [h \in Handles |->
                      IF h = CallerHandle THEN User(h, TRUE, DayMs, 0, Undef)
                      ELSE IF h = DefaultUserHandle THEN User(h, FALSE, DayMs, 0, Undef)
                      ELSE ProfileUser("dormant", h)]
        /\ stats = [h \in Handles |->
                      IF h = CallerHandle THEN Stats(Now0, Now0)
                      ELSE IF h = "bob" THEN signals
                      ELSE NoStats]
        /\ disk = [o \in DiskOwners |->
                      IF o = TemplateHandle THEN TemplateTree
                      ELSE IF o = "alice" THEN tree
                      ELSE IF o = "bob" THEN NoTree
                      ELSE Tree({})]
    /\ templateInfo \in TemplateInfos
    /\ Quiet

NextScan ==
    \/ \E body \in ScanBodies : nRequests = 0 /\ StartRequest(body)
    \/ Scan
    \/ FinishScan(DryRunBody)
    \/ Return

SpecScan == InitScan /\ [][NextScan]_vars

\* one dry run over a user whose tree has calls that fail: alice's tree is any
\* well-formed tree of up to MaxEntries entries of a pool, with at most one
\* failing call on one of its paths and either order of listing, or the
\* template's tree has a failing call on the file the baseline is compared by
FaultEntryPool ==
    {File("chats", "a.json", 2 * BytesPerMB),
     File("chats", "b.json", 5),
     SubDir("chats", "sub"),
     Inside(<<"sub">>, File("chats", "c.json", 3)),
     File("instruct", "preset.json", 7),
     Symlink("files", "link", 9)}
\* the calls that can fail on a tree with these entries
FaultsOf(entries) ==
    {Fault("exists", <<>>), Fault("readdir", <<>>)}
    \cup {Fault(call, <<e.key>>) : call \in {"exists", "readdir", "stat"}, e \in entries}
    \cup {Fault("stat", FullPath(e)) : e \in entries}
    \cup {Fault(call, FullPath(e)) :
             call \in {"exists", "readdir"}, e \in {x \in entries : x.kind = "dir"}}
\* one failing call per tree, under the two orders readdir may list names in
FaultTrees ==
    LET Listings ==
            {<<"chats", "files", "instruct", "a.json", "b.json", "sub", "c.json">>,
             <<"c.json", "sub", "b.json", "a.json", "instruct", "files", "chats">>}
    IN  {NoTree} \cup
        UNION {{Tree(es)} \cup
               {Failing(Tree(es), {f}, l) : f \in FaultsOf(es), l \in Listings} :
                 es \in {x \in SUBSET FaultEntryPool :
                            Cardinality(x) <= MaxEntries /\ WellFormed(x)}}
FaultBodies ==
    {Body(JInt(1), JBool(TRUE), Undef, Undef),
     Body(JInt(1), Undef, JInt(1), Undef),
     Body(JInt(1), JBool(TRUE), JInt(0), Undef)}
InitFaults ==
    /\ \E tree \in FaultTrees,
          template \in {TemplateTree} \cup
                       {Failing(TemplateTree,
                                {Fault(call, <<"instruct", "preset.json">>)}, <<>>) :
                           call \in {"exists", "stat"}} :
        /\ tree.faults = {} \/ template.faults = {}
        /\ store = [h \in Handles |->
                      IF h = CallerHandle THEN User(h, TRUE, DayMs, 0, Undef)
                      ELSE IF h = DefaultUserHandle THEN User(h, FALSE, DayMs, 0, Undef)
                      ELSE ProfileUser("dormant", h)]
        /\ stats = [h \in Handles |->
                      IF h = CallerHandle THEN Stats(Now0, Now0) ELSE NoStats]
        /\ disk = [o \in DiskOwners |->
                      IF o = TemplateHandle THEN template
                      ELSE IF o = "alice" THEN tree
                      ELSE IF o = "bob" THEN NoTree
                      ELSE Tree({})]
    /\ templateInfo \in TemplateInfos
    /\ Quiet

NextFaults ==
    \/ \E body \in FaultBodies : nRequests = 0 /\ StartRequest(body)
    \/ Scan
    \/ FinishScan(DryRunBody)
    \/ Return

SpecFaults == InitFaults /\ [][NextFaults]_vars

\* the locals of the delete-inactive-users handler that is running
Locals ==
    [pc |-> pc, criteria |-> criteria, now |-> now,
     baselineDirectories |-> baselineDirectories, users |-> users, todo |-> todo,
     cur |-> cur, unusedCheck |-> unusedCheck, candidates |-> candidates,
     totalCandidateSize |-> totalCandidateSize, previewId |-> previewId,
     req |-> req, idx |-> idx, emailNotified |-> emailNotified,
     emailError |-> emailError, results |-> results,
     totalDeletedSize |-> totalDeletedSize, response |-> response]

\* the event loop resumes the other delete-inactive-users handler: the one
\* that ran is suspended at its await (or has answered, or is not running)
SwitchRequest ==
    /\ pc \in AwaitPoints \cup {"responded"}
    /\ parked.request # Locals
    /\ parked' = [parked EXCEPT !.request = Locals]
    /\ pc' = parked.request.pc
    /\ criteria' = parked.request.criteria
    /\ now' = parked.request.now
    /\ baselineDirectories' = parked.request.baselineDirectories
    /\ users' = parked.request.users
    /\ todo' = parked.request.todo
    /\ cur' = parked.request.cur
    /\ unusedCheck' = parked.request.unusedCheck
    /\ candidates' = parked.request.candidates
    /\ totalCandidateSize' = parked.request.totalCandidateSize
    /\ previewId' = parked.request.previewId
    /\ req' = parked.request.req
    /\ idx' = parked.request.idx
    /\ emailNotified' = parked.request.emailNotified
    /\ emailError' = parked.request.emailError
    /\ results' = parked.request.results
    /\ totalDeletedSize' = parked.request.totalDeletedSize
    /\ response' = parked.request.response
    /\ actor' = "loop"
    /\ UNCHANGED <<store, avatars, disk, stats, clock, templateInfo, dirCache,
                   effects, scans, op, nRequests, nTicks, nEnvOps>>

\* the event loop resumes the other single-user handler
SwitchOp ==
    /\ op # parked.op
    /\ op' = parked.op
    /\ parked' = [parked EXCEPT !.op = op]
    /\ actor' = "loop"
    /\ UNCHANGED <<store, avatars, disk, stats, nEnvOps, OtherVars>>

\* the same confirm request sent twice: the body of the first scan that
\* finishes carries the token and the count of the preview it agrees with,
\* and every later one is that body again
TwiceConfirmBodies(crit, cands, done) ==
    IF done = <<>> THEN RaceConfirmBodies(crit, cands)
    ELSE {ConfirmBody(FALSE, done[1].token, JInt(Len(done[1].order)))}

NextTwice ==
    \/ \E body \in RaceBodies : nRequests < MaxRequests /\ StartRequest(body)
    \/ Scan
    \/ \E body \in TwiceConfirmBodies(criteria, candidates, scans) : FinishScan(body)
    \/ Execute
    \/ Return
    \/ SwitchRequest

SpecTwice == InitRace /\ [][NextTwice]_vars

\* single-user requests of two admins, up to two at a time, naming handles
\* in any spelling
InitOps ==
    /\ Init
    /\ store["alice"] = ProfileUser("dormant", "alice")
    /\ store["bob"] = ProfileUser("coadmin", "bob")
    /\ templateInfo.exists

NextOps ==
    \/ \E caller \in {CallerHandle, "bob"}, kind \in {"disable", "demote"},
          raw \in Handles \cup Spellings :
          nEnvOps < MaxOps /\ FlagOpStart(caller, kind, raw)
    \/ FlagOpGet
    \/ FlagOpSet
    \/ \E caller \in {CallerHandle, "bob"}, raw \in Handles \cup Spellings,
          purge \in BOOLEAN :
          nEnvOps < MaxOps /\ DeleteStart(caller, raw, purge)
    \/ DeleteRemoveKey
    \/ DeleteRemoveAvatar
    \/ DeleteRm
    \/ SwitchOp

SpecOps == InitOps /\ [][NextOps]_vars

\* one request of two candidates and nothing beside it but the filesystem:
\* while the handler awaits, the existence check of a user's root directory
\* may start to fail
NextPurge ==
    \/ \E body \in RaceBodies : nRequests = 0 /\ StartRequest(body)
    \/ Scan
    \/ \E body \in RaceConfirmBodies(criteria, candidates) : FinishScan(body)
    \/ Execute
    \/ Return
    \/ \E h \in RegularHandles :
          /\ pc \in AwaitPoints
          /\ nEnvOps < MaxEnvOps
          /\ disk[h].exists
          /\ nEnvOps' = nEnvOps + 1
          /\ disk' = [disk EXCEPT ![h] = Failing(disk[h], {Fault("exists", <<>>)}, <<>>)]
          /\ actor' = "disk"
          /\ UNCHANGED <<store, avatars, stats, op, parked, OtherVars>>

SpecPurge == InitRace /\ [][NextPurge]_vars

(***************************************************************************)
(* Properties                                                              *)
(***************************************************************************)
\* the current request has finished its scan and has not returned yet
Answered == previewId # JNull
\* ... and is no dry run
Destructive == Answered /\ ~req.dryRun
CandidateHandles == {candidates[i].handle : i \in 1..Len(candidates)}
SeqToSet(seq) == {seq[i] : i \in 1..Len(seq)}

\* the request body carries a string of at least 8 characters as previewId
SuppliesToken(r) == r.previewId.t = "string" /\ r.previewId.len >= MinPreviewIdLength
\* Number(confirmCount) is a non-negative integer
CountIsCardinal(r) ==
    LET n == ToNumber(r.confirmCount)
    IN  ~n.nan /\ n.m % 1000 = 0 /\ n.m >= 0
\* the request body carries a non-negative integer as confirmCount: a number,
\* or a string that is not blank and reads as one
SuppliesCount(r) ==
    /\ r.confirmCount.t \in {"number", "string"}
    /\ r.confirmCount.t = "string" => TrimmedString(r.confirmCount) # ""
    /\ CountIsCardinal(r)

\* the request has been refused and has deleted nothing
RefusedWithoutDeletion ==
    /\ pc = "responded"
    /\ response.kind = "error"
    /\ effects = {}
    /\ results = <<>>
    /\ store = users
    /\ avatars = Handles

\* C1 (as amended): a request that is no dry run and whose previewId differs
\* from the token recomputed by its own scan is refused, and removes no
\* account record, avatar record or directory and resets no statistics.  The
\* status is 409 when the request carries a plausible token and a non-negative
\* integer count, and 400 (token or count missing) otherwise.
C1_StaleTokenRefused ==
    (Destructive /\ req.previewId # previewId) =>
        /\ RefusedWithoutDeletion
        /\ response.status = IF SuppliesToken(req) /\ CountIsCardinal(req) THEN 409 ELSE 400

\* C1, as stated: whenever a supplied previewId differs from the recomputed
\* token, the status is 409
C1_StaleTokenAlways409 ==
    (Destructive /\ req.previewId.t = "string" /\ req.previewId # previewId) =>
        /\ RefusedWithoutDeletion
        /\ response.status = 409

\* a stale digest was refused with 409 while there were users to delete
C1_StaleTokenSeen ==
    /\ pc = "responded"
    /\ response = Rejected(409, "preview changed")
    /\ req.previewId \in StaleTokens(criteria, candidates)
    /\ Len(candidates) = 2

\* C2: a request that is no dry run and whose token matches, but whose
\* confirmCount (as a number) is not the number of candidates of its own scan,
\* is refused with 400 and deletes nothing.
C2_CountMismatchRefused ==
    (/\ Destructive
     /\ req.previewId = previewId
     /\ ToNumber(req.confirmCount) # JInt(Len(candidates))) =>
        /\ RefusedWithoutDeletion
        /\ response.status = 400

\* the right token came with a count that is a number but the wrong one, while
\* there were users to delete
C2_CountMismatchSeen ==
    /\ pc = "responded"
    /\ response = Rejected(400, "confirmCount mismatch")
    /\ req.previewId = previewId
    /\ req.confirmCount = JInt(1)
    /\ Len(candidates) = 2

\* C3: a request that is no dry run and does not supply both a plausible token
\* and a non-negative integer count is refused and deletes nothing, whatever
\* the candidate set is.
C3_UnconfirmedRefused ==
    (Destructive /\ ~(SuppliesToken(req) /\ SuppliesCount(req))) =>
        RefusedWithoutDeletion

\* what the scan of the current request saw
LastScan == scans[Len(scans)]

\* the candidate c, made from the scanned record user, met every criterion of
\* the request at its scan
MetCriteria(c, user) ==
    /\ user # NoUser
    /\ user.handle = c.handle
    /\ c.handle \notin {CallerHandle, DefaultUserHandle}
    /\ ~user.admin
    /\ c.lastActivity = LastActivityTime(user, LastScan.stats[c.handle])
    /\ now - c.lastActivity > criteria.inactiveDays * DayMs
    /\ c.storageSize = CalculateDirectorySize(LastScan.disk[c.handle])
    /\ criteria.maxStorageMB # JNull =>
          c.storageSize * 1000 <= MaxStorageBytes(criteria).m
    /\ criteria.requireUnused =>
          CheckUserIsUnused(LastScan.disk, UserDirectories(c.handle),
                            baselineDirectories).isUnused
    /\ criteria.excludeActiveSubscriptions =>
          ~(user.expiresAt # 0 /\ user.expiresAt > now)

\* C4: every user whose account record or directory a request removes is a
\* candidate of that request's own scan, met all its criteria there, and is
\* among the handles the supplied token was computed over.
C4_OnlyCandidatesRemoved ==
    \A e \in effects :
        /\ req.previewId = Sha256Hex(JSONStringify(criteria, ArraySort(MapHandle(candidates))))
        /\ \E i \in 1..Len(candidates) :
              /\ candidates[i].handle = e[2]
              /\ MetCriteria(candidates[i], users[e[2]])

\* a request with every criterion set has removed a record and a directory
C4_RemovalSeen ==
    /\ criteria # JNull
    /\ criteria.requireUnused
    /\ criteria.maxStorageMB # JNull
    /\ criteria.excludeActiveSubscriptions
    /\ \E h \in RegularHandles : {<<"record", h>>, <<"directory", h>>} \subseteq effects

\* C5: a candidate whose live record is an admin's when its turn starts (or
\* whose handle is the caller's or the default user's) is not deleted: the
\* step records the failure 'Protected user cannot be deleted', leaves its
\* account record, avatar record, directory and statistics as they are, and
\* goes on to the next candidate or, after the last, to the report.
C5_ProtectedAtTurn ==
    [][(/\ pc = "get"
        /\ actor' = "bulk"
        /\ store[candidates[idx].handle] # NoUser
        /\ \/ store[candidates[idx].handle].admin
           \/ candidates[idx].handle \in {CallerHandle, DefaultUserHandle}) =>
          (/\ results' = Append(results, Failure(candidates[idx].handle,
                                                 "Protected user cannot be deleted"))
           /\ UNCHANGED <<store, avatars, disk, stats, effects>>
           /\ IF idx < Len(candidates)
              THEN pc' = "get" /\ idx' = idx + 1
              ELSE pc' = "responded" /\ response' = ReportResponse)]_vars

\* the first candidate was promoted after the scan and was skipped, and the
\* second was deleted
C5_PromotedCandidateSkipped ==
    /\ pc = "responded"
    /\ Len(results) = 2
    /\ results[1].error = "Protected user cannot be deleted"
    /\ ~users[results[1].handle].admin
    /\ store[results[1].handle] # NoUser
    /\ store[results[1].handle].admin
    /\ results[1].handle \in avatars
    /\ disk[results[1].handle].exists
    /\ results[2].success
    /\ store[results[2].handle] = NoUser

\* C6: whatever the criteria and the population, no candidate of a scan (on
\* the list, or being built) has the caller's handle, the default user's
\* handle, or a scanned record with the admin flag set.
C6_CandidatesUnprotected ==
    \A h \in CandidateHandles \cup (IF cur = NoCandidate THEN {} ELSE {cur.handle}) :
        /\ h # CallerHandle
        /\ h # DefaultUserHandle
        /\ ~users[h].admin

\* a scan that has visited every user, another admin among them, has candidates
C6_ScanWithAdminsSeen ==
    /\ pc = "scan"
    /\ todo = {}
    /\ candidates # <<>>
    /\ \E h \in RegularHandles : users[h] # NoUser /\ users[h].admin
    /\ users[DefaultUserHandle] # NoUser
    /\ users[CallerHandle] # NoUser

\* C7: a dry run changes nothing.  No step of a request from its arrival to the
\* answer of its scan, nor its return, changes an account record, an avatar
\* record, a directory tree, the statistics, or the directory list the
\* resolver holds for the template user, which keeps a path under every key;
\* and a dry run is answered right after its scan, with nothing deleted.
C7_DryRunChangesNothing ==
    /\ [](/\ dirCache = DirectoryKeys
          /\ req.dryRun => (pc = "responded" /\ response = PreviewResponse /\ effects = {}))
    /\ [][(actor' = "bulk" /\ pc \in {"idle", "values", "scan", "size", "audit", "responded"})
            => UNCHANGED <<store, avatars, disk, stats, dirCache>>]_vars

\* a dry run with a baseline made from the template user's directory list has
\* answered, with candidates
C7_DryRunSeen ==
    /\ pc = "responded"
    /\ req.dryRun
    /\ baselineDirectories # JNull
    /\ criteria.requireUnused
    /\ candidates # <<>>

\* the users, the disk content and the clock two scans saw are the same
SameWorld(a, b) ==
    a.users = b.users /\ a.disk = b.disk /\ a.stats = b.stats /\ a.now = b.now

\* C8: the token is a function of the criteria and the set of candidate
\* handles: two scans with the same criteria and the same users, disk content
\* and clock give the same token, and so do two scans with the same criteria
\* and the same set of candidate handles, in whatever order the store
\* enumerated the users.
C8_TokenDeterministic ==
    \A i, j \in 1..Len(scans) :
        /\ (scans[i].criteria = scans[j].criteria /\ SameWorld(scans[i], scans[j]))
              => scans[i].token = scans[j].token
        /\ (/\ scans[i].criteria = scans[j].criteria
            /\ SeqToSet(scans[i].order) = SeqToSet(scans[j].order))
              => scans[i].token = scans[j].token

\* two scans with the same criteria saw the same world and found the same two
\* candidates in different orders
C8_TwoOrdersSeen ==
    /\ Len(scans) >= 2
    /\ scans[1].criteria = scans[2].criteria
    /\ SameWorld(scans[1], scans[2])
    /\ Len(scans[1].order) = 2
    /\ scans[1].order # scans[2].order

\* the criteria a and b differ in exactly one field
DifferInOne(a, b) ==
    Cardinality({f \in {"inactiveDays", "requireUnused", "maxStorageMB",
                        "excludeActiveSubscriptions"} : a[f] # b[f]}) = 1

\* C9: two scans that differ in a criterion, or whose candidate sets differ in
\* a handle, have different tokens.
C9_TokenDistinguishes ==
    \A i, j \in 1..Len(scans) :
        (\/ scans[i].criteria # scans[j].criteria
         \/ SeqToSet(scans[i].order) # SeqToSet(scans[j].order))
            => scans[i].token # scans[j].token

\* two scans that differ in the storage cap alone found the same candidates
C9_NearScansSeen ==
    /\ Len(scans) >= 2
    /\ DifferInOne(scans[1].criteria, scans[2].criteria)
    /\ scans[1].criteria.maxStorageMB # scans[2].criteria.maxStorageMB
    /\ scans[1].order # <<>>
    /\ SeqToSet(scans[1].order) = SeqToSet(scans[2].order)

\* C10: the outcome of the notice never blocks the deletion: whatever the
\* send comes back with, the candidate goes on to the removal of its record,
\* and no result is recorded for it yet.
C10_NoticeNeverBlocks ==
    [][(pc = "send" /\ actor' = "bulk") =>
          (pc' = "removeKey" /\ results' = results)]_vars

\* where the execution loop of a confirmed request stands
ExecPoints == {"get", "send", "removeKey", "removeAvatar", "rm"}
\* the request was answered with the aggregate report
Reported == pc = "responded" /\ response = ReportResponse

C12_DirectoryAfterRecord ==
    /\ \A h \in Handles :
          <<"directory", h>> \in effects =>
              /\ <<"record", h>> \in effects /\ <<"avatar", h>> \in effects
              /\ store[h] = NoUser /\ h \notin avatars
    /\ pc = "rm" =>
          /\ store[candidates[idx].handle] = NoUser
          /\ candidates[idx].handle \notin avatars
    /\ \A i \in 1..Len(results) :
          LET r == results[i] IN
          /\ r.error = "store failure" =>
                /\ ~r.success
                /\ <<"directory", r.handle>> \notin effects
                /\ disk[r.handle] = LastScan.disk[r.handle]
          /\ r.error = "rm failure" =>
                /\ ~r.success
                /\ store[r.handle] = NoUser
                /\ <<"record", r.handle>> \in effects
                /\ <<"directory", r.handle>> \notin effects
                /\ disk[r.handle] = LastScan.disk[r.handle]

\* one report holds a candidate whose record could not be removed, and one
\* whose directory could not be removed after its record was
C12_BothFailuresSeen ==
    /\ Reported
    /\ \E i, j \in 1..Len(results) :
          /\ results[i].error = "store failure"
          /\ store[results[i].handle] # NoUser
          /\ disk[results[i].handle].exists
          /\ results[j].error = "rm failure"
          /\ store[results[j].handle] = NoUser
          /\ disk[results[j].handle].exists
\* C13: when the record of a candidate is gone at the start of its turn, the
\* turn records the failure 'User not found' and touches nothing, the loop
\* goes on with the next candidate, and in the report no removal was made for
\* that candidate while every later candidate has its entry.
C13_MissingAtTurn ==
    /\ [][(pc = "get" /\ actor' = "bulk" /\ store[candidates[idx].handle] = NoUser) =>
            (/\ results' = Append(results, Failure(candidates[idx].handle,
                                                   "User not found"))
             /\ UNCHANGED <<store, avatars, disk, stats, effects>>
             /\ IF idx < Len(candidates)
                THEN pc' = "get" /\ idx' = idx + 1
                ELSE pc' = "responded" /\ response' = ReportResponse)]_vars
    /\ [](\A i \in 1..Len(results) :
            results[i].error = "User not found" =>
                /\ \A e \in effects : e[2] # results[i].handle
                /\ Reported => Len(results) = Len(candidates))

\* the first candidate was deleted by another request after the scan; it is
\* reported as not found, and the second candidate was deleted
C13_DeletedCandidateSkipped ==
    /\ Reported
    /\ Len(results) = 2
    /\ results[1].error = "User not found"
    /\ users[results[1].handle] # NoUser
    /\ store[results[1].handle] = NoUser
    /\ results[2].success
    /\ <<"record", results[2].handle>> \in effects
\* C14: with excludeActiveSubscriptions in force, when the record read at a
\* candidate's turn (found, and not protected) has an expiry later than the
\* clock at that moment, the turn records the failure 'User has active
\* subscription', touches nothing and the loop goes on; when its expiry is not
\* later than the clock at that moment no failure is recorded and the deletion
\* goes ahead, whatever the scan had seen.
C14_SubscriptionAtTurn ==
    [][(/\ pc = "get"
        /\ actor' = "bulk"
        /\ criteria.excludeActiveSubscriptions
        /\ store[candidates[idx].handle] # NoUser
        /\ ~store[candidates[idx].handle].admin) =>
          IF /\ store[candidates[idx].handle].expiresAt # 0
             /\ store[candidates[idx].handle].expiresAt > clock
          THEN /\ results' = Append(results, Failure(candidates[idx].handle,
                                                     "User has active subscription"))
               /\ UNCHANGED <<store, avatars, disk, stats, effects>>
               /\ IF idx < Len(candidates)
                  THEN pc' = "get" /\ idx' = idx + 1
                  ELSE pc' = "responded" /\ response' = ReportResponse
          ELSE /\ results' = results
               /\ pc' \in {"send", "removeKey"}]_vars

\* a candidate without a live subscription at the scan got one before its
\* turn, and the report lists it as failed with its record in place
C14_GrantedCandidateSkipped ==
    /\ Reported
    /\ criteria.excludeActiveSubscriptions
    /\ \E i \in 1..Len(results) :
          /\ results[i].error = "User has active subscription"
          /\ ~candidates[i].hasActiveSubscription
          /\ store[results[i].handle] # NoUser
          /\ store[results[i].handle].expiresAt > clock
          /\ results[i].handle \in avatars
          /\ \A e \in effects : e[2] # results[i].handle

\* a subscription granted after the scan has run out when the turn comes: the
\* deletion goes ahead
C14_LapsedGrantSeen ==
    /\ pc \in {"send", "removeKey"}
    /\ criteria.excludeActiveSubscriptions
    /\ store[candidates[idx].handle].expiresAt > now
    /\ store[candidates[idx].handle].expiresAt <= clock
\* the order of preference among the activity signals: the heartbeat, else
\* the recorded last activity, else the creation time
PreferredSignal(user, userStats) ==
    IF userStats # NoStats /\ userStats.lastHeartbeat # 0 THEN userStats.lastHeartbeat
    ELSE IF userStats # NoStats /\ userStats.lastActivity # 0 THEN userStats.lastActivity
    ELSE user.created

\* C15: whatever signals a user has, the scan judges the user by the heartbeat
\* when there is one, else by the recorded last activity when there is one,
\* else by the creation time: a user the scan keeps carries that time as its
\* lastActivity, and a user it drops for inactivity has not been idle longer
\* than the threshold since that time.
C15_HeartbeatPreferred ==
    [][\A h \in Handles :
          (/\ pc = "scan" /\ actor' = "bulk" /\ h \in todo
           /\ IF pc' = "size" THEN cur'.handle = h ELSE h \notin todo') =>
              LET t == PreferredSignal(users[h], stats[h]) IN
              IF pc' = "size"
              THEN cur'.lastActivity = t
              ELSE \/ ScanProtected(users[h], CallerHandle)
                   \/ criteria.excludeActiveSubscriptions
                          /\ SubscriptionActiveAt(users[h], now)
                   \/ ~(now - t > InactiveThreshold(criteria))]_vars
\* the time since the last activity the scan determined for a user
Elapsed(h) == now - LastActivityTime(users[h], LastScan.stats[h])
\* the size of a user's directory at the scan
SizeAtScan(h) == CalculateDirectorySize(LastScan.disk[h])
\* the user passes every criterion of the request
Qualifies(h) ==
    /\ users[h] # NoUser
    /\ h # CallerHandle /\ h # DefaultUserHandle /\ ~users[h].admin
    /\ criteria.excludeActiveSubscriptions =>
          (users[h].expiresAt = 0 \/ users[h].expiresAt <= now)
    /\ Elapsed(h) > criteria.inactiveDays * DayMs
    /\ criteria.maxStorageMB # JNull =>
          SizeAtScan(h) * 1000 <= MaxStorageBytes(criteria).m
    /\ criteria.requireUnused =>
          CheckUserIsUnused(LastScan.disk, UserDirectories(h),
                            baselineDirectories).isUnused
RECURSIVE SumStorage(_)
SumStorage(cs) == IF cs = <<>> THEN 0 ELSE Head(cs).storageSize + SumStorage(Tail(cs))

\* C16: when a scan is complete its candidates are, without repetition,
\* exactly the users that are not protected, have no unexpired subscription
\* if those are excluded, have been idle strictly longer than inactiveDays,
\* are not larger than the cap if one is set (a size equal to the cap stays;
\* under a cap of 0 only empty users stay), and are audited unused if that is
\* required; each carries its size, and totalSize is the sum of the sizes.
C16_CandidatesExact ==
    Answered =>
        /\ CandidateHandles = {h \in Handles : Qualifies(h)}
        /\ Cardinality(CandidateHandles) = Len(candidates)
        /\ \A i \in 1..Len(candidates) :
              candidates[i].storageSize = SizeAtScan(candidates[i].handle)
        /\ totalCandidateSize = SumStorage(candidates)
        /\ (criteria.maxStorageMB = JInt(0)) =>
              \A i \in 1..Len(candidates) : candidates[i].storageSize = 0

\* a complete scan left out a user idle for exactly the threshold and kept a
\* longer idle one
C16_ThresholdSeen ==
    /\ Answered
    /\ \E h \in RegularHandles :
          /\ Elapsed(h) = criteria.inactiveDays * DayMs
          /\ h \notin CandidateHandles
    /\ candidates # <<>>

\* a complete scan kept a user whose size is the cap
C16_SizeAtCapSeen ==
    /\ Answered
    /\ criteria.maxStorageMB # JNull
    /\ \E i \in 1..Len(candidates) :
          /\ candidates[i].storageSize > 0
          /\ candidates[i].storageSize * 1000 = MaxStorageBytes(criteria).m

\* a complete scan under a cap of 0 kept an empty user and left out another
C16_ZeroCapSeen ==
    /\ Answered
    /\ criteria.maxStorageMB = JInt(0)
    /\ candidates # <<>>
    /\ \E h \in RegularHandles : h \notin CandidateHandles /\ SizeAtScan(h) > 0
                                   /\ Elapsed(h) > criteria.inactiveDays * DayMs
\* the step in which the audit of the user at hand returns
AuditReturns == pc = "audit" /\ actor' = "bulk"
\* the entries of the audited user under the directory of category key
EntriesOf(key) ==
    IF disk[cur.handle].exists
    THEN {e \in disk[cur.handle].entries : e.key = key}
    ELSE {}
\* the baseline has an entry of the same size at the relative path of e
MatchesBaseline(e) ==
    LET b == BaselineDirOf(baselineDirectories, e.key)
    IN  /\ b.t = "string"
        /\ disk[b.owner].exists
        /\ \E x \in disk[b.owner].entries :
              x.key = e.key /\ RelPath(x) = RelPath(e) /\ x.size = e.size
\* the places in the checklist of the categories that hold an entry of kind
\* `kinds` which is no noise by its name and, if `unmatched`, not in the baseline
Places(kinds, unmatched) ==
    {i \in 1..Len(KeysToCheck) :
        \E e \in EntriesOf(KeysToCheck[i]) :
            /\ e.kind \in kinds
            /\ e.name \notin IgnoredEntryNames
            /\ unmatched => ~MatchesBaseline(e)}
First(places) == CHOOSE i \in places : \A j \in places : i <= j
\* the audit returned `used`, reporting a category with extra content that is
\* not after place i of the checklist
UsedByPlace(check, i) ==
    /\ ~check.isUnused
    /\ Len(check.details) <= i
    /\ check.details[Len(check.details)][2]

\* C17: when a checked category of the audited user holds, at any depth, a
\* regular file (not an OS noise file by its name) that the baseline lacks at
\* the same relative path, or has with another size, or when that category has
\* no baseline, the audit returns isUnused = false and reports hasExtra = true
\* for that category, unless it stopped at an earlier category with extra
\* content.
C17_UnmatchedFileIsExtra ==
    [][(AuditReturns /\ Places({"file"}, TRUE) # {}) =>
          UsedByPlace(unusedCheck', First(Places({"file"}, TRUE)))]_vars

\* the same, for the files that lie in no directory named like an OS noise file
C17_UnmatchedFileOutsideNoiseIsExtra ==
    [][(/\ AuditReturns
        /\ Places({"file"}, TRUE) # {}
        /\ \A e \in EntriesOf(KeysToCheck[First(Places({"file"}, TRUE))]) :
              e.kind = "dir" => e.name \notin IgnoredEntryNames) =>
          UsedByPlace(unusedCheck', First(Places({"file"}, TRUE)))]_vars
\* C18: when every checked category of the audited user is missing, empty, or
\* holds nothing but OS noise files and regular files that the baseline has
\* at the same relative path with the same size (in directories or not), the
\* audit returns isUnused = true, with no extra content in any of the 17
\* categories.
C18_CleanTreeIsUnused ==
    [][(/\ AuditReturns
        /\ \A i \in 1..Len(KeysToCheck) : \A e \in EntriesOf(KeysToCheck[i]) :
              \/ e.kind = "dir"
              \/ e.kind = "file" /\ e.name \in IgnoredEntryNames
              \/ e.kind = "file" /\ MatchesBaseline(e)) =>
          (/\ unusedCheck'.isUnused
           /\ Len(unusedCheck'.details) = Len(KeysToCheck)
           /\ \A i \in 1..Len(KeysToCheck) :
                 unusedCheck'.details[i] = <<KeysToCheck[i], FALSE>>)]_vars

\* a user with a noise file and a file the baseline has, one of them in a
\* subdirectory, was audited and became a candidate marked unused
C18_CleanTreeSeen ==
    /\ Answered
    /\ criteria.requireUnused
    /\ \E i \in 1..Len(candidates) :
          LET es == disk[candidates[i].handle].entries IN
          /\ candidates[i].isUnused = JBool(TRUE)
          /\ \E e \in es : e.kind = "file" /\ e.name \in IgnoredEntryNames
          /\ \E e \in es : /\ e.kind = "file" /\ e.name \notin IgnoredEntryNames
                            /\ e.dir # <<>>

\* C19: the audit returns isUnused = true exactly when none of the 17 checked
\* categories has extra content; when it returns false, its details are the
\* categories of the checklist up to and including the first one with extra
\* content, in order, and that one alone has hasExtra = true.
C19_StopsAtFirstOffender ==
    [][AuditReturns =>
          LET extra == {i \in 1..Len(KeysToCheck) :
                          DirHasExtraContent(disk, DirPath(cur.handle, KeysToCheck[i]),
                              BaselineDirOf(baselineDirectories, KeysToCheck[i]))}
              d == unusedCheck'.details
          IN  /\ Len(KeysToCheck) = 17
              /\ unusedCheck'.isUnused = (extra = {})
              /\ Len(d) = IF extra = {} THEN Len(KeysToCheck) ELSE First(extra)
              /\ \A i \in 1..Len(d) : d[i] = <<KeysToCheck[i], i \in extra>>
              /\ \A i \in 1..Len(d) : d[i][2] => i = Len(d)]_vars

\* an audit stopped at a category that is neither the first nor the last of
\* the checklist, while a later category has extra content too
C19_EarlyStopSeen ==
    /\ unusedCheck # JNull
    /\ ~unusedCheck.isUnused
    /\ Len(unusedCheck.details) > 1
    /\ Len(unusedCheck.details) < Len(KeysToCheck)
    /\ \E h \in RegularHandles : \E e \in disk[h].entries :
          /\ e.key = KeysToCheck[Len(KeysToCheck)]
          /\ \E f \in disk[h].entries : f.key = unusedCheck.details[Len(unusedCheck.details)][1]

\* C20: when a checked category of the audited user holds, at any depth and
\* under any name, an entry that is neither a regular file nor a directory,
\* the audit returns isUnused = false and reports hasExtra = true for that
\* category, unless it stopped at an earlier category with extra content.
C20_NonRegularIsExtra ==
    [][LET places == {i \in 1..Len(KeysToCheck) :
                        \E e \in EntriesOf(KeysToCheck[i]) : e.kind \notin {"file", "dir"}}
       IN  (AuditReturns /\ places # {}) => UsedByPlace(unusedCheck', First(places))]_vars

\* the same, for the entries that are not named like an OS noise file and lie
\* in no directory named like one
C20_NonRegularOutsideNoiseIsExtra ==
    [][(/\ AuditReturns
        /\ Places({"symlink"}, FALSE) # {}
        /\ \A e \in EntriesOf(KeysToCheck[First(Places({"symlink"}, FALSE))]) :
              e.kind = "dir" => e.name \notin IgnoredEntryNames) =>
          UsedByPlace(unusedCheck', First(Places({"symlink"}, FALSE)))]_vars
\* C21: a filesystem call that fails during the audit never makes a user with
\* non-baseline content unused: when a checked category of the audited user
\* holds a regular file the baseline does not match, or a symbolic link, the
\* audit returns isUnused = false whatever existence check, listing or stat
\* fails on the user's tree or on the template's.
C21_FailureNeverUnused ==
    [][(AuditReturns /\ Places({"file", "symlink"}, TRUE) # {}) =>
          ~unusedCheck'.isUnused]_vars

\* the same, when the existence check of the category directory itself
\* does not fail; and a listing or a stat that fails makes a user used
C21_FailureAfterExistenceCheckIsExtra ==
    [][AuditReturns =>
          LET faults == disk[cur.handle].faults
              spared == \A f \in faults : ~(f.call = "exists" /\ Len(f.path) = 1)
          IN  /\ (spared /\ Places({"file", "symlink"}, TRUE) # {}) =>
                    ~unusedCheck'.isUnused
              /\ \A i \in 1..Len(KeysToCheck) :
                    (/\ spared
                     /\ EntriesOf(KeysToCheck[i]) # {}
                     /\ Fault("readdir", <<KeysToCheck[i]>>) \in faults) =>
                        UsedByPlace(unusedCheck', i)]_vars
\* the scan at hand audits its users
AuditingScan == criteria # JNull /\ criteria.requireUnused
\* the baseline of the scan at hand has a directory for exactly the checked
\* categories that the template info names
BaselineIsActiveCategories ==
    \A k \in KeySet :
        BaselineDirOf(baselineDirectories, k) # JNull <=>
            /\ templateInfo.exists
            /\ \E i \in 1..Len(templateInfo.categories) :
                  CategoryToDirKey(templateInfo.categories[i]) = JStr(k)
\* the regular files (no OS noise files by their name) that user h has in a
\* checked category without baseline
FilesWithoutBaseline(h) ==
    IF disk[h].exists
    THEN {e \in disk[h].entries :
             /\ e.kind = "file"
             /\ e.key \in KeySet
             /\ e.name \notin IgnoredEntryNames
             /\ BaselineDirOf(baselineDirectories, e.key) = JNull}
    ELSE {}

\* C22: in a scan with requireUnused the baseline has a directory for exactly
\* the checked categories that the active template populates (none when there
\* is no template or it populates none), and no candidate of the scan has a
\* regular file (other than an OS noise file) in a checked category that has
\* no baseline.
C22_NoBaselineFileExcludes ==
    AuditingScan =>
        /\ BaselineIsActiveCategories
        /\ \A h \in CandidateHandles : FilesWithoutBaseline(h) = {}

\* the same, for the files that lie in no directory named like an OS noise file
C22_NoBaselineFileOutsideNoiseExcludes ==
    AuditingScan =>
        /\ BaselineIsActiveCategories
        /\ \A h \in CandidateHandles :
              \A e \in FilesWithoutBaseline(h) : ~Walked(disk[h].entries, e)
\* the step in which the size of the user at hand is computed
SizeReturns == pc = "size" /\ actor' = "bulk"
IsPrefix(p, q) == Len(p) <= Len(q) /\ SubSeq(q, 1, Len(p)) = p
\* the directory a failing call was made from: a failing stat of an item is
\* made by the walk of the directory that lists the item
WalkOf(f) == IF f.call = "stat" THEN SubSeq(f.path, 1, Len(f.path) - 1) ELSE f.path
\* the non-directory entries outside the subtree of every failing entry
OutsideFailingEntries(tree) ==
    {e \in tree.entries :
        e.kind # "dir" /\ \A f \in tree.faults : ~IsPrefix(f.path, FullPath(e))}
\* the non-directory entries outside every directory whose walk met a failure
OutsideFailingWalks(tree) ==
    {e \in tree.entries :
        e.kind # "dir" /\ \A f \in tree.faults : ~IsPrefix(WalkOf(f), FullPath(e))}

\* C23: the size computed for a user whose tree has a failing existence check,
\* listing or stat is the sum of the sizes of all entries outside the failing
\* entry's subtree, the siblings listed after the failing entry included
\* (seen in the size the scan hands to the audit).
C23_FailureCostsOnlyItsSubtree ==
    [][(SizeReturns /\ pc' = "audit" /\ disk[cur.handle].exists) =>
          cur'.storageSize = SumSizes(OutsideFailingEntries(disk[cur.handle]))]_vars

\* what holds instead: a failure costs at most the directory whose walk met
\* it, and nothing is counted from the failing entry's subtree
C23_FailureCostsAtMostItsDirectory ==
    [][(SizeReturns /\ pc' = "audit" /\ disk[cur.handle].exists) =>
          /\ cur'.storageSize <= SumSizes(OutsideFailingEntries(disk[cur.handle]))
          /\ cur'.storageSize >= SumSizes(OutsideFailingWalks(disk[cur.handle]))]_vars
\* the tree of the user at hand has no failing call
Faultless(tree) == tree.faults = {}

\* C24 (as stated): the size computed for a path that does not exist is 0, and
\* for a tree with no failing call it is the sum of the byte lengths of the
\* regular files under it, directories, symbolic links and special files
\* adding nothing.
C24_SumOfRegularFiles ==
    [][(SizeReturns /\ pc' = "audit" /\ Faultless(disk[cur.handle])) =>
          cur'.storageSize =
              IF disk[cur.handle].exists
              THEN SumSizes({e \in disk[cur.handle].entries : e.kind = "file"})
              ELSE 0]_vars

\* C24 (amended): the size computed for a path that does not exist is 0, and
\* for a tree with no failing call it is the sum of the sizes that stat
\* reports for the entries that are no directories: the byte length of a
\* regular file, and for a symbolic link the size of what it points to.
C24_SumOfStatSizes ==
    [][(SizeReturns /\ pc' = "audit" /\ Faultless(disk[cur.handle])) =>
          cur'.storageSize =
              IF disk[cur.handle].exists
              THEN SumSizes({e \in disk[cur.handle].entries : e.kind # "dir"})
              ELSE 0]_vars

\* the scan took the size of a tree without failing call that holds a
\* regular file, a directory and a symbolic link whose target has bytes; and
\* the size of a missing tree
C24_LinkSized ==
    /\ pc = "audit"
    /\ Faultless(disk[cur.handle])
    /\ \E e \in disk[cur.handle].entries : e.kind = "file" /\ e.size > 0
    /\ \E e \in disk[cur.handle].entries : e.kind = "dir"
    /\ \E e \in disk[cur.handle].entries : e.kind = "symlink" /\ e.size > 0
    /\ cur.storageSize > 0
C24_MissingSized ==
    /\ pc = "audit"
    /\ ~disk[cur.handle].exists
    /\ cur.storageSize = 0
\* the scan at hand has a storage cap
CappedScan == criteria # JNull /\ criteria.maxStorageMB # JNull
\* the bytes of the regular files user h has on disk
BytesOnDisk(h) ==
    IF disk[h].exists
    THEN SumSizes({e \in disk[h].entries : e.kind = "file"})
    ELSE 0

\* C29: under a storage cap no user whose regular files on disk exceed the cap
\* is a candidate of the scan, also when calls of the size computation fail.
C29_OverCapNeverCandidate ==
    CappedScan => \A h \in CandidateHandles : ~OverStorageCap(criteria, BytesOnDisk(h))

\* the same, for the users whose tree has no failing call
C29_OverCapNeverCandidateWithoutFailure ==
    CappedScan =>
        \A h \in CandidateHandles :
            Faultless(disk[h]) => ~OverStorageCap(criteria, BytesOnDisk(h))
\* the step at hand is one of the bulk request and removes the record of h
BulkRemoves(h) == actor' = "bulk" /\ store[h] # NoUser /\ store'[h] = NoUser

\* C27: the bulk execution removes no account record whose admin flag is set
\* in the account store at the moment of the removal, whatever promote
\* requests run beside it.
C27_NoAdminRemoved ==
    [][\A h \in Handles : BulkRemoves(h) => ~store[h].admin]_vars

\* the same, when no single-user request has run beside the bulk request
C27_NoAdminRemovedWhenAlone ==
    [][\A h \in Handles : (BulkRemoves(h) /\ nEnvOps = 0) => ~store[h].admin]_vars

\* C28: an account record that is absent from the store is never written by a
\* request that flips a flag: once removed, a record does not come back.
C28_RemovedStaysRemoved ==
    [][\A h \in Handles : store[h] = NoUser => store'[h] = NoUser]_vars

\* what holds instead: a record comes back only by the write of a flag
\* request that had read it before the removal
C28_OnlyStaleWriteRecreates ==
    [][\A h \in Handles :
          (store[h] = NoUser /\ store'[h] # NoUser) =>
              /\ actor' = "admin"
              /\ op # NoOp /\ op.kind \in FlagKinds /\ op.at = "set" /\ op.handle = h
              /\ store'[h] = op.user]_vars
\* the step at hand is one of the single-user request `op` and removes,
\* disables or demotes the record of h
Harms(h) ==
    /\ actor' = "admin"
    /\ store[h] # NoUser
    /\ \/ store'[h] = NoUser
       \/ store[h].enabled /\ ~store'[h].enabled
       \/ store[h].admin /\ ~store'[h].admin

\* C25: no step of a disable, demote or delete request removes, disables or
\* demotes the record of the admin who issued the request, and none removes
\* the record of the default user, in whatever spelling the request names
\* its handle.
C25_NoSelfHarmNoDefaultRemoval ==
    [][/\ \A h \in Handles : (op # NoOp /\ op.caller = h) => ~Harms(h)
       /\ store[DefaultUserHandle] # NoUser => store'[DefaultUserHandle] # NoUser]_vars

\* the same for disable and demote requests alone
C25_FlagRequestsSpareCaller ==
    [][(op # NoOp /\ op.kind \in FlagKinds) => ~Harms(op.caller)]_vars
\* a list of results reports user h as deleted
DeletedIn(rs, h) == \E i \in 1..Len(rs) : rs[i].handle = h /\ rs[i].success
\* the handler at hand listed the users after the record of some user was
\* removed, as every request does that starts after the removal
ListedAfterRemoval ==
    /\ criteria # JNull
    /\ pc \notin {"idle", "values"}
    /\ \E h \in Handles : users[h] = NoUser
\* the handler at hand deletes nothing and, once it answers, answers 409
RejectedAsStale ==
    /\ pc \notin ExecPoints
    /\ results = <<>>
    /\ pc = "responded" => response.status = 409

\* C26: when the same confirm request runs twice, one after the other or
\* interleaved at the awaits, no user is reported as deleted by both, and a
\* request that starts after the other has removed a candidate's record is
\* rejected as stale and deletes nothing.
C26_DoubleExecutionSafe ==
    /\ \A h \in Handles : ~(DeletedIn(results, h) /\ DeletedIn(parked.request.results, h))
    /\ ListedAfterRemoval => RejectedAsStale

\* what holds instead: the late request is rejected, and a user is reported
\* twice only by two requests that both listed the users before any removal
C26_LateRequestIsStale ==
    /\ ListedAfterRemoval => RejectedAsStale
    /\ \A h \in Handles :
          (DeletedIn(results, h) /\ DeletedIn(parked.request.results, h)) =>
              \A u \in Handles : users[u] # NoUser /\ parked.request.users[u] # NoUser
\* the account store holds the record of an enabled admin
EnabledAdminExists ==
    \E h \in Handles : store[h] # NoUser /\ store[h].admin /\ store[h].enabled

\* C30: whatever disable, demote and delete requests enabled admins issue, one
\* after the other or interleaved at their awaits, the account store always
\* holds the record of at least one enabled admin.
C30_EnabledAdminRemains == EnabledAdminExists

\* the same for the steps of requests that name another account than their
\* caller's: it fails as well, by two requests in flight that name each
\* other's caller
C30_EnabledAdminRemainsAmongOthers ==
    [][(/\ EnabledAdminExists
        /\ op # NoOp => op.handle # op.caller) => EnabledAdminExists']_vars
\* the sum of the sizes the scan recorded for the candidates reported deleted
ScanSizeOfDeleted ==
    SumStorage(SelectSeq(candidates, LAMBDA c : DeletedIn(results, c.handle)))
\* nothing is left of user h, and its statistics are reset
Gone(h) ==
    /\ store[h] = NoUser
    /\ h \notin avatars
    /\ ~disk[h].exists
    /\ stats[h] = NoStats
\* the root directory of user h is as the scan found it
DirectoryIntact(h) ==
    /\ disk[h].exists = LastScan.disk[h].exists
    /\ disk[h].entries = LastScan.disk[h].entries

\* C31: in the report of a bulk execution that ran alone, every user in
\* deletedUsers has no account record, no avatar record, no root directory
\* and no statistics left, every user in failedUsers has its account record
\* and its directory as before, and totalDeletedSize is the sum of the sizes
\* the scan recorded for the users in deletedUsers.
C31_ReportMatchesWorld ==
    Reported =>
        /\ \A i \in 1..Len(results) :
              IF results[i].success
              THEN Gone(results[i].handle)
              ELSE /\ store[results[i].handle] # NoUser
                   /\ DirectoryIntact(results[i].handle)
        /\ totalDeletedSize = ScanSizeOfDeleted

\* the part about deletedUsers alone
C31_DeletedUsersAreGone ==
    Reported => \A i \in 1..Len(results) : results[i].success => Gone(results[i].handle)

\* what holds: the sizes add up; a user in deletedUsers has no records and no
\* statistics left, and no directory unless the existence check of its root
\* failed; a user in failedUsers has its directory as before, and its account
\* record unless the execution had removed the record before the failure
C31_ReportMatchesWorldButForFailures ==
    Reported =>
        /\ \A i \in 1..Len(results) :
              LET h == results[i].handle IN
              IF results[i].success
              THEN /\ store[h] = NoUser /\ h \notin avatars /\ stats[h] = NoStats
                   /\ disk[h].exists => Fault("exists", <<>>) \in disk[h].faults
              ELSE /\ DirectoryIntact(h)
                   /\ store[h] = NoUser =>
                         /\ <<"record", h>> \in effects
                         /\ results[i].error \in {"store failure", "rm failure"}
        /\ totalDeletedSize = ScanSizeOfDeleted
====
